---- MODULE Spec2Model ----
(***************************************************************************)
(* QueueManager (src/helpers/queue_manager.py) as a state machine.         *)
(*                                                                         *)
(* The queue manager runs on one asyncio event loop.  The model keeps the  *)
(* loop's FIFO ready queue (`ready`) and runs one callback per step: a     *)
(* task runs from one suspension point to the next.  asyncio.Queue is      *)
(* modelled with its item deque, its waiting getters and its waiting       *)
(* putters; asyncio.wait_for(queue.get(), timeout=0.1) is modelled as the  *)
(* interpreter's asyncio does it: the get runs in an inner task, and the   *)
(* caller is resumed by a done-callback or by the timer.                   *)
(***************************************************************************)
EXTENDS Integers, Sequences, FiniteSets, TLC

\* Number of add_to_queue calls made over the life of the model.
MaxJobs == 3
\* Number of times the process is killed and started again.
MaxRestarts == 1
\* QueueManager(max_queue_size) is constructed with a capacity in 1..MaxCapacity.
MaxCapacity == 2

Jobs == 1..MaxJobs
\* Owner 0 is the consumer task (_queue_processor); owner j is the task
\* that called add_to_queue for job j.
Owners == 0..MaxJobs
\* The user_id arguments of add_to_queue (any str): odd jobs are submitted
\* with "test_user_123", which makes int() raise ValueError, even jobs with
\* "1001", which int() accepts.
Users == {"test_user_123", "1001"}
UserOf(j) == IF j % 2 = 1 THEN "test_user_123" ELSE "1001"
\* What handle_request can do with the query of job j: raise (an Exception or
\* asyncio.CancelledError), return the answer built after the pipeline failed,
\* or return a proper answer.  The query of job 1 makes it raise, the query of
\* job 2 makes it raise or return the error answer, the others are answered.
OutcomesOf(j) == CASE j = 1 -> {"exc"}
                   [] j = 2 -> {"error_response", "exc"}
                   [] OTHER -> {"ok"}
\* Number of add_to_queue calls made after a restart.
MaxJobsAfterRestart == 1
\* Number of add_to_queue calls that are in progress at the same time.
MaxInFlight == 2
\* Number of shutdown() calls made over the life of the model.
MaxShutdowns == 1
\* Number of add_to_queue calls of a run in which shutdown() is called:
\* shutdown() is called only after at most MaxJobsWithShutdown calls, and once
\* it has been called, a call arrives only as one of the first
\* MaxJobsWithShutdown of the run.
MaxJobsWithShutdown == 2
\* The channel_id arguments of add_to_queue (any str): job 1 is submitted
\* with "general", which makes int() raise ValueError, job 2 with "1234" and
\* the others with "5678", which int() accepts.
ChannelOf(j) == CASE j = 1 -> "general" [] j = 2 -> "1234" [] OTHER -> "5678"
\* int(s) returns a number
IsNumeric(s) == s \in {"1001", "1234", "5678"}
\* The channel ids for which bot.get_channel returns a channel; for any other
\* it returns None.
KnownChannels == {"1234"}
\* For the awaited notifier calls of one callback of the consumer (the call
\* that ends a job, the call that starts the next one): whether a failing
\* Discord call raises after it has suspended the consumer or before.
NotifierIO == [finish : BOOLEAN, started : BOOLEAN]
\* current_item = None
NoJob == 0
\* The entry of queue._getters that belongs to the consumer's own queue.get().
ConsumerGetter == -1

VARIABLES
    queue,           \* asyncio.Queue._queue: ids of the pending items, head first
    getters,         \* asyncio.Queue._getters: waiting gets (ConsumerGetter or owner of an inner get)
    putters,         \* asyncio.Queue._putters: owners blocked in queue.put
    ready,           \* the event loop's ready queue of callbacks
    active_items,    \* dict id -> QueueItem
    queue_file,      \* logs/queue_state.json: the persisted "active_items"
    processor_task,  \* "none" (None), "live", "done"
    cpc,             \* where the consumer task is suspended
    ccancel,         \* cancellation requested of the consumer: "no", "fut", "must"
    cdying,          \* the consumer runs its finally block because of CancelledError
    hres,            \* outcome of the awaited handle_request: "none", "ok", "error_response", "exc", "cancelled"
    is_processing,
    current_item,
    upd,             \* per owner: the running _update_queue_positions call
    ppc,             \* per job: state of its add_to_queue call
    ret,             \* per job: item.position when add_to_queue returned
    detached,        \* dict id -> QueueItem: the `item` of a suspended add_to_queue call that is no longer in active_items
    cleanup,         \* ids with a sleeping _cleanup_item task
    nextId,          \* the next fresh id (uuid4)
    epoch,           \* number of restarts so far
    shut,            \* state of the shutdown() call: "idle", "called", "waiting", "resuming"
    nshut,           \* number of shutdown() calls made so far
    consumers,       \* number of _queue_processor tasks that were created and have not ended
    max_queue_size,  \* QueueManager.max_queue_size, the capacity of the pending queue
    notifier_calls,  \* per job: the discord_notifier methods invoked for it, in order
    pipeline,        \* the ResearchPipeline object and its running process_query call
    search,          \* the SearchAPIManager object and its running search call
    tool,            \* the running restricted_web_search call (src/tools.py)
    limiter,         \* the CommonHelpers rate limiter, its running calls and the clock
    disk,            \* whether logs/queue_state.json can be written: "ok" or "failing"
    discord,         \* whether the Discord calls of the notifier succeed: "ok" or "failing"
    handler,         \* the running BotHandler.handle_request call (src/handlers/bot_handler.py)
    api_error        \* the running CommonHelpers.handle_api_error call

vars == <<queue, getters, putters, ready, active_items, queue_file, processor_task,
          cpc, ccancel, cdying, hres, is_processing, current_item, upd, ppc, ret,
          detached, cleanup, nextId, epoch, shut, nshut, consumers, max_queue_size, notifier_calls,
          pipeline,
          search,
          tool,
          limiter,
          disk, discord, handler, api_error>>

----------------------------------------------------------------------------
\* Helpers

Range(s) == {s[i] : i \in DOMAIN s}
Remove(s, x) == SelectSeq(s, LAMBDA y : y # x)
CB(k, u) == [k |-> k, u |-> u]
EmptyDict == [j \in {} |-> 0]
DictPut(d, k, v) == [x \in (DOMAIN d) \cup {k} |-> IF x = k THEN v ELSE d[x]]
DictDel(d, k) == [x \in (DOMAIN d) \ {k} |-> d[x]]

\* QueueItem(id, user_id, channel_id, query, timestamp): status "queued", position 0
QueueItem(user, channel) ==
    [user_id |-> user, channel_id |-> channel, status |-> "queued", position |-> 0,
     result |-> "None", error |-> "None"]

IdleUpd == [st |-> "off", position |-> 0, temp |-> <<>>, res |-> NoJob, exc |-> "none"]

\* The whole state as one record: every step below is a function on it.
\* `trail` lists, for the step that is running, what a process killed inside
\* the step would leave behind: the content of the snapshot file and the
\* notifier methods invoked, after each write to the file and each invocation.
State ==
    [queue |-> queue, getters |-> getters, putters |-> putters, ready |-> ready,
     active_items |-> active_items, queue_file |-> queue_file,
     processor_task |-> processor_task, cpc |-> cpc, ccancel |-> ccancel,
     cdying |-> cdying, hres |-> hres, is_processing |-> is_processing,
     current_item |-> current_item, upd |-> upd, ppc |-> ppc, ret |-> ret,
     detached |-> detached,
     cleanup |-> cleanup, nextId |-> nextId, epoch |-> epoch,
     shut |-> shut, nshut |-> nshut, consumers |-> consumers,
     notifier_calls |-> notifier_calls,
     disk |-> disk, discord |-> discord,
     trail |-> <<>>]

Commit(S) ==
    /\ queue' = S.queue
    /\ getters' = S.getters
    /\ putters' = S.putters
    /\ ready' = S.ready
    /\ active_items' = S.active_items
    /\ queue_file' = S.queue_file
    /\ processor_task' = S.processor_task
    /\ cpc' = S.cpc
    /\ ccancel' = S.ccancel
    /\ cdying' = S.cdying
    /\ hres' = S.hres
    /\ is_processing' = S.is_processing
    /\ current_item' = S.current_item
    /\ upd' = S.upd
    /\ ppc' = S.ppc
    /\ ret' = S.ret
    /\ detached' = S.detached
    /\ cleanup' = S.cleanup
    /\ nextId' = S.nextId
    /\ epoch' = S.epoch
    /\ shut' = S.shut
    /\ nshut' = S.nshut
    /\ consumers' = S.consumers
    /\ notifier_calls' = S.notifier_calls
    /\ max_queue_size' = max_queue_size
    /\ pipeline' = pipeline
    /\ search' = search
    /\ tool' = tool
    /\ limiter' = limiter
    /\ disk' = disk
    /\ discord' = discord
    /\ handler' = handler
    /\ api_error' = api_error

\* The state with the callback at the head of the ready queue taken off.
Popped == [State EXCEPT !.ready = Tail(ready)]
HeadIs(k, u) == ready # <<>> /\ Head(ready) = CB(k, u)

----------------------------------------------------------------------------
\* asyncio.Queue

\* Queue._wakeup_next(self._getters)
WakeupNextGetter(S) ==
    IF S.getters = <<>> THEN S
    ELSE LET g == Head(S.getters) IN
         IF g = ConsumerGetter
         THEN [S EXCEPT !.getters = Tail(@), !.ready = Append(@, CB("task", 0))]
         ELSE [S EXCEPT !.getters = Tail(@), !.ready = Append(@, CB("inner", g)),
                        !.upd[g].st = IF @ = "blocked" THEN "woken" ELSE "timedout_woken"]

\* Queue._wakeup_next(self._putters)
WakeupNextPutter(S) ==
    IF S.putters = <<>> THEN S
    ELSE LET p == Head(S.putters) IN
         [S EXCEPT !.putters = Tail(@), !.ready = Append(@, CB("task", p)),
                   !.upd[p].st = "putwoken"]

put_nowait(S, item) == WakeupNextGetter([S EXCEPT !.queue = Append(@, item)])
get_nowait(S) == WakeupNextPutter([S EXCEPT !.queue = Tail(@)])

----------------------------------------------------------------------------
\* _save_queue_state / _load_queue_state

\* What outlives the process when it is killed at this point of a step: the
\* snapshot file and the notifier methods that were invoked.
Leaves(S) == [file |-> S.queue_file, calls |-> S.notifier_calls]
Mark(S) == [S EXCEPT !.trail = Append(@, Leaves(S))]

\* open(self.queue_file, 'w') (217) truncates the file, json.dump (218) writes
\* the items.
WriteSnapshot(S) ==
    Mark([Mark([S EXCEPT !.queue_file = EmptyDict]) EXCEPT !.queue_file = S.active_items])

\* As save_queue_state, but a failed write is not caught: the manager is left
\* without its tracked items.
save_queue_stateFatal(S) ==
    IF S.disk = "ok"
    THEN WriteSnapshot(S)
    ELSE [S EXCEPT !.active_items = EmptyDict]

\* The snapshot is written; if the write fails (mkdir or open raises), the
\* exception is caught and logged, and the file is left as it was.
save_queue_state(S) ==
    IF S.disk = "ok"
    THEN WriteSnapshot(S)
    ELSE S

\* Items are restored as stored, except that "processing" becomes "queued".
load_queue_state(file) ==
    [j \in DOMAIN file |->
        IF file[j].status = "processing" THEN [file[j] EXCEPT !.status = "queued"]
        ELSE file[j]]

----------------------------------------------------------------------------
\* _update_queue_positions, run by owner u

\* for item in temp_items: await self.queue.put(item)
RECURSIVE PutBack(_, _)
PutBack(S, u) ==
    LET t == S.upd[u].temp IN
    IF t = <<>> THEN [S EXCEPT !.upd[u] = IdleUpd]
    ELSE IF Len(S.queue) >= max_queue_size
         THEN [S EXCEPT !.putters = Append(@, u), !.upd[u].st = "putblk"]
         ELSE PutBack(put_nowait([S EXCEPT !.upd[u].temp = Tail(t)], Head(t)), u)

\* while not self.queue.empty(): wait_for(self.queue.get(), 0.1) starts the inner task
UpdLoop(S, u) ==
    IF S.queue # <<>>
    THEN [S EXCEPT !.upd[u].st = "spawned", !.ready = Append(@, CB("inner", u))]
    ELSE PutBack(S, u)

\* A variant of update_queue_positions that numbers the jobs from the old
\* position of the head of the queue on.
update_queue_positionsShifting(S, u) ==
    UpdLoop([S EXCEPT !.upd[u] =
                [IdleUpd EXCEPT !.st = "run",
                                !.position = IF S.queue # <<>>
                                             THEN S.active_items[Head(S.queue)].position + 1
                                             ELSE 1,
                                !.exc = "timeout"]], u)

update_queue_positions(S, u) ==
    UpdLoop([S EXCEPT !.upd[u] = [IdleUpd EXCEPT !.st = "run", !.position = 1,
                                                 !.exc = "timeout"]], u)

\* The owner is resumed inside _update_queue_positions.
UpdResume(S, u) ==
    LET s == S.upd[u] IN
    CASE s.st = "released" ->
            UpdLoop([S EXCEPT !.active_items[s.res].position = s.position,
                              !.upd[u].temp = Append(@, s.res),
                              !.upd[u].position = @ + 1,
                              !.upd[u].res = NoJob,
                              !.upd[u].st = "run"], u)
      [] s.st = "timedout" ->
            [S EXCEPT !.getters = Remove(@, u), !.upd[u].st = "cancel_g",
                      !.ready = Append(@, CB("inner", u))]
      [] s.st = "timedout_woken" -> [S EXCEPT !.upd[u].st = "cancel_m"]
      [] s.st \in {"break", "putwoken"} -> PutBack(S, u)

\* The inner task of wait_for ends cancelled.
InnerCancelled(S, u) ==
    [S EXCEPT !.upd[u].st = "cancelled", !.ready = Append(@, CB("rel", u))]

\* One step of the inner task of wait_for: Queue.get().  In "timedout_woken"
\* the timer has released the waiter and the caller is scheduled behind this
\* step: the get goes on as after any wake-up, and the caller will find the
\* inner task done (it returns the item) or not done (it cancels it).
InnerStep(S, u) ==
    LET s == S.upd[u] IN
    CASE s.st \in {"spawned", "woken"} ->
            IF S.queue = <<>>
            THEN [S EXCEPT !.getters = Append(@, u), !.upd[u].st = "blocked"]
            ELSE LET G == get_nowait(S) IN
                 [G EXCEPT !.upd[u].st = "got", !.upd[u].res = Head(S.queue),
                           !.ready = Append(@, CB("rel", u))]
      [] s.st = "timedout_woken" ->
            IF S.queue = <<>>
            THEN [S EXCEPT !.getters = Append(@, u), !.upd[u].st = "timedout"]
            ELSE LET G == get_nowait(S) IN
                 [G EXCEPT !.upd[u].st = "released", !.upd[u].res = Head(S.queue),
                           !.ready = Append(@, CB("rel", u))]
      [] s.st = "cancel_g" -> InnerCancelled(S, u)
      [] s.st = "cancel_m" ->
            InnerCancelled(IF S.queue # <<>> THEN WakeupNextGetter(S) ELSE S, u)

\* tasks._release_waiter as the inner task's done-callback
ReleaseStep(S, u) ==
    LET s == S.upd[u] IN
    IF u = 0 /\ S.ccancel # "no" THEN S
    ELSE IF s.st = "got"
         THEN [S EXCEPT !.upd[u].st = "released", !.ready = Append(@, CB("task", u))]
    ELSE IF s.st = "cancelled"
         THEN [S EXCEPT !.upd[u].st = "break", !.ready = Append(@, CB("task", u))]
    ELSE S

----------------------------------------------------------------------------
\* _queue_processor

\* The consumer task ends with CancelledError; a waiting shutdown() is resumed.
Die(S) ==
    LET S1 == [S EXCEPT !.processor_task = "done", !.cpc = "done",
                        !.ccancel = "no", !.cdying = FALSE, !.hres = "none",
                        !.consumers = @ - 1]
    IN IF S.shut = "waiting"
       THEN [S1 EXCEPT !.shut = "resuming", !.ready = Append(@, CB("shutwake", 0))]
       ELSE S1

\* The Discord call that an awaited DiscordNotifier method awaits first for
\* the item, or "none" when the method raises before it awaits anything.
\* notify_processing_started and send_result evaluate int(item.channel_id)
\* (lines 43, 64), which raises ValueError for a channel_id that is no number;
\* bot.get_channel returns the channel, to which the method sends, or None,
\* and then the method evaluates int(item.user_id) for the fallback
\* fetch_user (46, 67).  notify_error evaluates int(item.user_id) (100).
FirstAwait(item, method) ==
    IF method = "notify_error"
    THEN IF IsNumeric(item.user_id) THEN "fetch_user" ELSE "none"
    ELSE IF ~IsNumeric(item.channel_id) THEN "none"
    ELSE IF item.channel_id \in KnownChannels THEN "channel.send"
    ELSE IF IsNumeric(item.user_id) THEN "fetch_user" ELSE "none"

\* `item.result and "message" in item.result`: handle_request returns the
\* dict of create_response, which has a 'message'.
HasMessage(result) == result \in {"response", "error_response"}

\* A variant of notifier_returns in which the notifier lets the exception of
\* a failed call out to its caller.
notifier_returnsRaising(S, item, method) ==
    LET first == FirstAwait(S.active_items[item], method) IN
    IF first = "none" \/ S.discord # "ok" THEN "raised"
    ELSE IF /\ method = "send_result"
            /\ first = "channel.send"
            /\ ~HasMessage(S.active_items[item].result)
         THEN "False"
         ELSE "True"

\* What an awaited DiscordNotifier method hands to the consumer.  Each of
\* notify_processing_started, send_result and notify_error runs its whole body
\* under try / except Exception, logs the failure (the ValueError of int(), or
\* what a failing Discord call raises) and returns False; send_result also
\* returns False when it finds no 'message' in the result (71-73).
notifier_returns(S, item, method) ==
    LET first == FirstAwait(S.active_items[item], method) IN
    IF first = "none" \/ S.discord # "ok" THEN "False"
    ELSE IF /\ method = "send_result"
            /\ first = "channel.send"
            /\ ~HasMessage(S.active_items[item].result)
         THEN "False"
         ELSE "True"

\* Whether an awaited DiscordNotifier method suspends the consumer.  A method
\* that raises before its first await returns False without a suspension.
\* Otherwise the method awaits a Discord call: a working call suspends; a
\* failing call raises after a suspension (late) or before any.
notifier_suspends(S, item, method, late) ==
    IF FirstAwait(S.active_items[item], method) = "none"
    THEN FALSE
    ELSE IF S.discord = "ok" THEN TRUE ELSE late

\* The consumer after `await discord_notifier.notify_processing_started(item)`.
\* The call is outside the inner try: an exception would leave the lock and
\* reach the handler of the loop (log, sleep(5), next iteration).  The value
\* returned is not looked at; the consumer goes on to await handle_request.
AfterNotifyStarted(S) ==
    IF notifier_returns(S, S.current_item, "notify_processing_started") = "raised"
    THEN [S EXCEPT !.cpc = "start", !.ready = Append(@, CB("task", 0))]
    ELSE [S EXCEPT !.cpc = "handle"]

\* item = await self.queue.get(), then the statements up to the first
\* suspension: the awaited notify_processing_started, if it suspends, else the
\* awaited handle_request
GetOrBlock(S, io) ==
    IF S.queue = <<>>
    THEN [S EXCEPT !.getters = Append(@, ConsumerGetter), !.cpc = "get"]
    ELSE LET item == Head(S.queue)
             G == get_nowait(S)
             G1 == [G EXCEPT !.is_processing = TRUE,
                             !.current_item = item,
                             !.active_items[item].status = "processing"]
             G2 == Mark([G1 EXCEPT !.notifier_calls[item] =
                                       Append(@, "notify_processing_started")])
         IN IF S.active_items[item].position > 0
            THEN IF notifier_suspends(G2, item, "notify_processing_started", io.started)
                 THEN [G2 EXCEPT !.cpc = "notify"]
                 ELSE AfterNotifyStarted(G2)
            ELSE [G1 EXCEPT !.cpc = "handle"]

\* the end of the finally block: _save_queue_state(), task_done(); then the
\* CancelledError that is on its way ends the task, or the next iteration starts
FinallyEnd(S, io) ==
    LET S1 == save_queue_state(S) IN
    IF S1.cdying THEN Die(S1) ELSE GetOrBlock(S1, io)

\* the finally block up to the first suspension
Finally(S, io) ==
    LET S1 == [S EXCEPT !.current_item = NoJob, !.is_processing = FALSE,
                        !.cleanup = @ \cup {S.current_item}, !.hres = "none"]
        S2 == update_queue_positions(S1, 0)
    IN IF S2.upd[0].st = "off" THEN FinallyEnd(S2, io) ELSE [S2 EXCEPT !.cpc = "update"]

\* The consumer is resumed inside the finally block's _update_queue_positions.
ConsumerUpdate(S, io) ==
    LET s == S.upd[0]
        Continue(S0) == LET S1 == UpdResume(S0, 0) IN
                        IF S1.upd[0].st = "off" THEN FinallyEnd(S1, io) ELSE S1
    IN
    IF S.ccancel = "no"
    THEN IF s.st = "break" /\ s.exc = "cancel"
         THEN Die([S EXCEPT !.upd[0] = IdleUpd])
         ELSE Continue(S)
    ELSE CASE s.st \in {"got", "released"} ->
                 Continue([S EXCEPT !.ccancel = "no", !.upd[0].st = "released"])
           [] s.st \in {"blocked", "timedout"} ->
                 [S EXCEPT !.ccancel = "no", !.getters = Remove(@, 0),
                           !.upd[0].st = "cancel_g", !.upd[0].exc = "cancel",
                           !.ready = Append(@, CB("inner", 0))]
           [] s.st \in {"woken", "timedout_woken"} ->
                 [S EXCEPT !.ccancel = "no", !.upd[0].st = "cancel_m",
                           !.upd[0].exc = "cancel"]
           [] s.st \in {"cancelled", "break", "putblk"} ->
                 Die([S EXCEPT !.upd[0] = IdleUpd])
           [] s.st = "putwoken" ->
                 LET S1 == [S EXCEPT !.upd[0] = IdleUpd] IN
                 Die(IF Len(S.queue) < max_queue_size THEN WakeupNextPutter(S1) ELSE S1)

\* The consumer after `await discord_notifier.send_result(item)` or
\* `await discord_notifier.notify_error(item)`.  send_result is inside the
\* inner try: an exception would be handled as a processing error (item.error,
\* "failed", notify_error).  The value returned is not looked at; the consumer
\* goes on to the finally block.
AfterSend(S, io) ==
    LET log == S.notifier_calls[S.current_item] IN
    IF /\ notifier_returns(S, S.current_item, log[Len(log)]) = "raised"
       /\ log[Len(log)] = "send_result"
    THEN Mark([S EXCEPT !.active_items[S.current_item].error = "error",
                        !.active_items[S.current_item].status = "failed",
                        !.notifier_calls[S.current_item] = Append(@, "notify_error"),
                        !.cpc = "send"])
    ELSE Finally(S, io)

\* `await discord_notifier.send_result(item)` / `notify_error(item)`: the
\* consumer is suspended in the call, or the call returns at once and the
\* consumer goes on in the same callback.
AwaitSend(S, io) ==
    LET log == S.notifier_calls[S.current_item] IN
    IF notifier_suspends(S, S.current_item, log[Len(log)], io.finish)
    THEN [S EXCEPT !.cpc = "send"]
    ELSE AfterSend(S, io)

\* A variant of HandleOutcome that puts a job whose processing raised back
\* into the pending queue.
HandleOutcomeRequeue(S, io) ==
    IF S.hres \in {"ok", "error_response"}
    THEN AwaitSend(Mark([S EXCEPT !.active_items[S.current_item].result =
                                 IF S.hres = "ok" THEN "response" ELSE "error_response",
                             !.active_items[S.current_item].status = "completed",
                             !.notifier_calls[S.current_item] = Append(@, "send_result"),
                             !.hres = "none"]), io)
    ELSE AwaitSend(Mark([S EXCEPT !.active_items[S.current_item].error = "error",
                             !.active_items[S.current_item].status = "failed",
                             !.notifier_calls[S.current_item] = Append(@, "notify_error"),
                             !.queue = Append(@, S.current_item),
                             !.hres = "none"]), io)

\* A variant of HandleOutcome in which a successful job gets the error
\* notification on top of the result.
HandleOutcomeNotifyBoth(S, io) ==
    IF S.hres \in {"ok", "error_response"}
    THEN AwaitSend(Mark([S EXCEPT !.active_items[S.current_item].result =
                                 IF S.hres = "ok" THEN "response" ELSE "error_response",
                             !.active_items[S.current_item].status = "completed",
                             !.notifier_calls[S.current_item] =
                                 @ \o <<"send_result", "notify_error">>,
                             !.hres = "none"]), io)
    ELSE AwaitSend(Mark([S EXCEPT !.active_items[S.current_item].error = "error",
                             !.active_items[S.current_item].status = "failed",
                             !.notifier_calls[S.current_item] = Append(@, "notify_error"),
                             !.hres = "none"]), io)

\* handle_request has returned (item.result, "completed", then send_result is
\* awaited) or raised an Exception (item.error, "failed", then notify_error is
\* awaited).  The returned value is the formatted answer ("response") or, when
\* the pipeline failed, the error answer that handle_request / process_query
\* build in their except branches ("error_response").
HandleOutcome(S, io) ==
    IF S.hres \in {"ok", "error_response"}
    THEN AwaitSend(Mark([S EXCEPT !.active_items[S.current_item].result =
                                 IF S.hres = "ok" THEN "response" ELSE "error_response",
                             !.active_items[S.current_item].status = "completed",
                             !.notifier_calls[S.current_item] = Append(@, "send_result"),
                             !.hres = "none"]), io)
    ELSE AwaitSend(Mark([S EXCEPT !.active_items[S.current_item].error = "error",
                             !.active_items[S.current_item].status = "failed",
                             !.notifier_calls[S.current_item] = Append(@, "notify_error"),
                             !.hres = "none"]), io)

\* One step of the consumer task, from the point where it is suspended.
\* A CancelledError, thrown in by cancel() or raised by handle_request, is no
\* Exception: neither `except Exception` (lines 165, 192) catches it.  It runs
\* the finally block when it comes up inside the inner try, and ends the task.
ConsumerStep(S, io) ==
    CASE S.cpc = "start" ->
            IF S.ccancel # "no" THEN Die(S) ELSE GetOrBlock(S, io)
      [] S.cpc = "get" ->
            IF S.ccancel = "fut" THEN Die(S)
            ELSE IF S.ccancel = "must"
                 THEN Die(IF S.queue # <<>> THEN WakeupNextGetter(S) ELSE S)
                 ELSE GetOrBlock(S, io)
      [] S.cpc = "notify" ->
            IF S.ccancel # "no" THEN Die(S) ELSE AfterNotifyStarted(S)
      [] S.cpc = "handle" ->
            IF S.ccancel # "no" \/ S.hres = "cancelled"
            THEN Finally([S EXCEPT !.cdying = TRUE, !.ccancel = "no"], io)
            ELSE HandleOutcome(S, io)
      [] S.cpc = "send" ->
            IF S.ccancel # "no"
            THEN Finally([S EXCEPT !.cdying = TRUE, !.ccancel = "no"], io)
            ELSE AfterSend(S, io)
      [] S.cpc = "update" -> ConsumerUpdate(S, io)

\* A variant of start_processor that creates a consumer task whenever it is
\* called.
start_processorAlways(S) ==
    [S EXCEPT !.processor_task = "live", !.cpc = "start",
              !.consumers = @ + 1,
              !.ready = Append(@, CB("task", 0))]

\* start_processor: a consumer task is created if there is none or the
\* previous one is done; otherwise nothing happens.
start_processor(S) ==
    IF S.processor_task \in {"none", "done"}
    THEN [S EXCEPT !.processor_task = "live", !.cpc = "start",
                   !.consumers = @ + 1,
                   !.ready = Append(@, CB("task", 0))]
    ELSE S

\* processor_task.cancel()
CancelConsumer(S) ==
    IF CB("task", 0) \in Range(S.ready) THEN [S EXCEPT !.ccancel = "must"]
    ELSE LET S1 == [S EXCEPT !.ccancel = "fut", !.ready = Append(@, CB("task", 0))] IN
         IF S.cpc = "get" THEN [S1 EXCEPT !.getters = Remove(@, ConsumerGetter)]
         ELSE IF S.cpc = "update" /\ S.upd[0].st = "putblk"
              THEN [S1 EXCEPT !.putters = Remove(@, 0)]
              ELSE S1

----------------------------------------------------------------------------
\* add_to_queue

\* A variant of IsFull that is off by one.
IsFullOffByOne(q) == Len(q) > max_queue_size

\* if self.queue.qsize() >= self.max_queue_size
IsFull(q) == Len(q) >= max_queue_size

\* add_to_queue up to its first suspension, or to raise asyncio.QueueFull
AddCall(S, j) ==
    IF IsFull(S.queue) THEN [S EXCEPT !.ppc[j] = "full"]
    ELSE LET S1 == put_nowait(S, j)
             S2 == [S1 EXCEPT !.active_items =
                                  DictPut(@, j, QueueItem(UserOf(j), ChannelOf(j)))]
             S3 == update_queue_positions(S2, j)
         IN [S3 EXCEPT !.ppc[j] = "updating"]

\* The QueueItem object that the add_to_queue call of job j holds in its
\* local `item` (line 55): the entry of active_items, or the object that
\* _cleanup_item has deleted from active_items in the meantime.
HeldItem(S, j) ==
    IF j \in DOMAIN S.active_items THEN S.active_items[j] ELSE S.detached[j]

\* add_to_queue resumed inside _update_queue_positions; at its end: save, return item
AddResume(S, j) ==
    LET S1 == UpdResume(S, j) IN
    IF S1.upd[j].st = "off"
    THEN [save_queue_state(S1) EXCEPT !.ppc[j] = "ok",
                                      !.ret[j] = HeldItem(S1, j).position,
                                      !.detached = DictDel(@, j)]
    ELSE S1

----------------------------------------------------------------------------
\* Queries

\* get_item_status returns None
NoItem == [id |-> NoJob]

\* self.active_items.get(item_id)
get_item_status(items, item_id) ==
    IF item_id \in DOMAIN items THEN items[item_id] ELSE NoItem

\* get_user_queue_position returns None
NoPosition == -1

Min(set) == CHOOSE x \in set : \A y \in set : x <= y

get_user_queue_position(items, user) ==
    LET user_positions == {items[j].position : j \in
                              {i \in DOMAIN items : items[i].user_id = user
                                                     /\ items[i].status = "queued"}}
    IN IF user_positions # {} THEN Min(user_positions) ELSE NoPosition

----------------------------------------------------------------------------
\* ResearchPipeline (src/helpers/research_pipeline.py): process_query and the
\* providers it runs through.

\* len(self.llm_providers) after __init__: 'groq' and 'groq_small' are appended
\* together (lines 52-75), the other providers are commented out, and without
\* GROQ_API_KEY the constructor raises ValueError (lines 129-130).
NumProviders == 2
\* Number of process_query calls made on one pipeline object.
MaxCalls == 2
\* await asyncio.sleep(2): the wait after a provider failed.
ProviderDelay == 2
\* handle_api_error(..., max_retries: int = 3)
max_retries == 3

\* What one invocation of a provider comes to in its caller:
\*   "ok"            a well-formed answer;
\*   "malformed"     an answer that cannot be parsed (ValueError);
\*   "rate_limited"  the API refuses the request with its rate-limit error;
\*   "fatal"         a validation or programmer error raised while the provider
\*                   is used (such as the ValueError of lines 408-411).
Outcomes == {"ok", "malformed", "rate_limited", "fatal"}
\* A provider's behaviour: the outcome of its first, second, ... invocation;
\* the last outcome repeats.
Behaviours ==
    { <<"ok">>, <<"malformed">>, <<"fatal">>, <<"malformed", "ok">>,
      <<"rate_limited", "rate_limited", "ok">> }
\* The lists self.llm_providers can hold: the two providers of the
\* constructor, each with one of the behaviours.
ProviderLists == [1..NumProviders -> Behaviours]
\* Two providers that answer well.
WorkingProviders == [p \in 1..NumProviders |-> <<"ok">>]

NoResult == [kind |-> "none", provider |-> 0]
ErrorResult == [kind |-> "error", provider |-> 0]
\* The call has ended with asyncio.CancelledError and returned nothing.
CancelledResult == [kind |-> "cancelled", provider |-> 0]

\* ResearchPipeline.__init__ with the given provider list; no call is running.
NewPipeline(providers) ==
    [llm_providers |-> providers,
     current_provider_index |-> 0,
     invoked |-> [p \in DOMAIN providers |-> 0],
     calls |-> 0,
     pc |-> "idle",
     provider |-> 0,
     log |-> <<>>,
     delays |-> <<>>,
     result |-> NoResult]

\* The outcome of the next invocation of provider p.
NextOutcome(P, p) ==
    LET b == P.llm_providers[p]
        k == P.invoked[p] + 1
    IN b[IF k <= Len(b) THEN k ELSE Len(b)]

\* The current provider is invoked in the given phase; the attempt is logged.
Invoke(P, phase) ==
    LET p == P.provider IN
    [P EXCEPT !.invoked[p] = @ + 1,
              !.log = Append(@, [phase |-> phase, provider |-> p,
                                 outcome |-> NextOutcome(P, p)])]

LastOutcome(P) == P.log[Len(P.log)].outcome

\* process_query is entered; optimize_search_query starts its loop over
\* self.llm_providers at the first entry.
StartCall(P) ==
    LET P1 == [P EXCEPT !.calls = @ + 1, !.log = <<>>, !.delays = <<>>,
                        !.result = NoResult]
    IN [P1 EXCEPT !.pc = "optimize", !.provider = 1]

\* optimize_search_query: chain.ainvoke on the current provider is over.  A
\* usable answer is returned; anything else is caught and followed by the sleep.
OptimizeStep(P) ==
    LET P1 == Invoke(P, "optimize") IN
    IF LastOutcome(P1) = "ok"
    THEN [P1 EXCEPT !.pc = "gather"]
    ELSE [P1 EXCEPT !.pc = "optimize_sleep", !.delays = Append(@, ProviderDelay)]

\* optimize_search_query after its sleep: continue with the next provider, or
\* return the original query when the list is exhausted.
OptimizeResume(P) ==
    IF P.provider < Len(P.llm_providers)
    THEN [P EXCEPT !.pc = "optimize", !.provider = @ + 1]
    ELSE [P EXCEPT !.pc = "gather"]

\* asyncio.CancelledError comes up at the await where process_query is
\* suspended (the task that runs the call was cancelled).  It is a
\* BaseException: none of the `except Exception` clauses (206, 246, 254)
\* catches it, and it leaves process_query.
CancelCall(P) == [P EXCEPT !.pc = "done", !.result = CancelledResult]

\* gather_research_data is over: it returned the research data ("none") and
\* the generation loop starts at the first provider, or it raised.  An
\* Exception is caught by process_query's outer handler (254), which returns
\* the "Analysis failed" answer; asyncio.CancelledError is not caught.
GatherStep(P, raised) ==
    CASE raised = "none" -> [P EXCEPT !.pc = "generate", !.provider = 1]
      [] raised = "Exception" -> [P EXCEPT !.pc = "done", !.result = ErrorResult]
      [] raised = "CancelledError" -> CancelCall(P)

\* As GenerateStep, but the loop goes on after a well-formed answer.
GenerateStepGoesOn(P) ==
    LET P1 == Invoke(P, "generate") IN
    IF LastOutcome(P1) = "ok"
    THEN IF P.provider < Len(P.llm_providers)
         THEN [P1 EXCEPT !.result = [kind |-> "response", provider |-> P.provider],
                         !.provider = @ + 1]
         ELSE [P1 EXCEPT !.pc = "done",
                         !.result = [kind |-> "response", provider |-> P.provider]]
    ELSE [P1 EXCEPT !.pc = "generate_sleep", !.delays = Append(@, ProviderDelay)]

\* process_query step 3: generate_response on the current provider is over.  A
\* dict is converted and returned; every exception is caught and followed by
\* the sleep.
GenerateStep(P) ==
    LET P1 == Invoke(P, "generate") IN
    IF LastOutcome(P1) = "ok"
    THEN [P1 EXCEPT !.pc = "done",
                    !.result = [kind |-> "response", provider |-> P.provider]]
    ELSE [P1 EXCEPT !.pc = "generate_sleep", !.delays = Append(@, ProviderDelay)]

\* The generate_response calls made on provider p in the running call.
Attempts(P, p) ==
    Cardinality({k \in DOMAIN P.log : P.log[k].phase = "generate" /\ P.log[k].provider = p})

\* As GenerateResume, but the provider that failed is tried again until it has
\* had max_retries attempts.
GenerateResumeRetry(P) ==
    IF Attempts(P, P.provider) < max_retries
    THEN [P EXCEPT !.pc = "generate"]
    ELSE IF P.provider < Len(P.llm_providers)
    THEN [P EXCEPT !.pc = "generate", !.provider = @ + 1]
    ELSE [P EXCEPT !.pc = "done", !.result = ErrorResult]

\* process_query step 3 after its sleep: continue with the next provider, or
\* raise "All LLM providers failed", which the outer handler turns into the
\* "Analysis failed" answer.
GenerateResume(P) ==
    IF P.provider < Len(P.llm_providers)
    THEN [P EXCEPT !.pc = "generate", !.provider = @ + 1]
    ELSE [P EXCEPT !.pc = "done", !.result = ErrorResult]

----------------------------------------------------------------------------
\* SearchAPIManager.search (src/helpers/search_apis.py)

\* Number of search calls made on one SearchAPIManager object.
MaxSearchCalls == 2
\* for api in ['serpapi', 'duckduckgo', 'google']
api_order == <<"serpapi", "duckduckgo", "google">>
Apis == Range(api_order)
\* max_retries = 3 (line 103): the rounds over all APIs of one search call
SearchMaxRetries == 3
\* Time is counted in units of 10 s: a rate-limit window of 10 s is 1 unit,
\* the window of 20 s set after a rate-limit error is 2 units.
Window10 == 1
Window20 == 2
\* await asyncio.sleep(10)
RoundDelay == 1

\* What search_with_api comes to: a non-empty result list, an empty list, an
\* exception, an exception whose text names a rate limit.
SearchOutcomes == {"results", "empty", "error", "rate_limited"}

\* SearchAPIManager.__init__; `since` is the time since api_usage[api]['last_used']
\* (0 at construction, the loop's clock being far beyond it), capped at Window20.
NewSearch ==
    [since |-> [a \in Apis |-> Window20],
     rate_limits |-> [a \in Apis |-> Window10],
     calls |-> 0,
     pc |-> "idle",
     api |-> 1,
     retry_count |-> 0,
     tried_apis |-> {},
     sleep_left |-> 0,
     log |-> <<>>,
     pass_start |-> 0]

\* check_rate_limit(api): time_since_last_use >= self.rate_limits[api]
check_rate_limit(X, a) == X.since[a] >= X.rate_limits[a]

\* search is called: retry_count = 0, tried_apis = set(), first round.
SearchStart(X) ==
    [X EXCEPT !.calls = @ + 1, !.pc = "for", !.api = 1, !.retry_count = 0,
              !.tried_apis = {}, !.sleep_left = 0, !.log = <<>>,
              !.pass_start = 0]

\* The end of one pass of the for loop (lines 137-144) and the while test.
EndOfPass(X) ==
    IF Cardinality(X.tried_apis) = 3
    THEN LET n == X.retry_count + 1 IN
         IF n < SearchMaxRetries
         THEN [X EXCEPT !.retry_count = n, !.pc = "sleep", !.sleep_left = RoundDelay]
         ELSE [X EXCEPT !.retry_count = n, !.pc = "raised"]
    ELSE [X EXCEPT !.pc = "for", !.api = 1, !.pass_start = Len(X.log)]

\* The for loop moves to its next API, or the pass is over.
NextApi(X) == IF X.api < 3 THEN [X EXCEPT !.api = @ + 1] ELSE EndOfPass(X)

\* One iteration of the for loop (lines 109-135) on the current API; `out` is
\* what search_with_api comes to if it is called.
ForStep(X, out) ==
    LET a == api_order[X.api] IN
    IF a \in X.tried_apis \/ ~check_rate_limit(X, a)
    THEN NextApi(X)
    ELSE LET X1 == [X EXCEPT !.log = Append(@, a)] IN
         CASE out = "results" -> [X1 EXCEPT !.since[a] = 0, !.pc = "returned"]
           [] out = "rate_limited" ->
                 NextApi([X1 EXCEPT !.tried_apis = @ \cup {a}, !.rate_limits[a] = Window20])
           [] OTHER -> NextApi([X1 EXCEPT !.tried_apis = @ \cup {a}])

\* The sleep between two rounds is over: tried_apis.clear(), next round.
SearchResume(X) ==
    [X EXCEPT !.pc = "for", !.api = 1, !.tried_apis = {}, !.pass_start = Len(X.log)]

\* 10 s pass.
SearchTick(X) ==
    [X EXCEPT !.since = [a \in Apis |-> IF @[a] < Window20 THEN @[a] + 1 ELSE @[a]],
              !.sleep_left = IF @ > 0 THEN @ - 1 ELSE 0]

----------------------------------------------------------------------------
\* restricted_web_search (src/tools.py), a function under tenacity's bare @retry:
\* whenever the function raises, it is called again, without wait and without end.

\* Number of restricted_web_search calls nested in one another: while the
\* recursion of line 111 nests, the search is answered with a rate-limit error
\* only at a depth below MaxDepth.
MaxDepth == 2

\* `callable`: in the handler, the name restricted_web_search (line 111) is
\* the object that @tool made of the function.  Whether that object can be
\* called like a function depends on the installed langchain version.
NewTool == [pc |-> "idle", depth |-> 0, callable |-> TRUE]

\* restricted_web_search(query) is called.
ToolStart(T) == [T EXCEPT !.pc = "attempt", !.depth = 1]

\* search.results(enhanced_query, 5) (line 80) is over.  A returned list ends
\* the call with a ToolOutput (lines 86-92); an exception that names
\* "Ratelimit" leads to time.sleep(10), any other one to the second search.
ToolAttempt(T, out) ==
    CASE out = "results" -> [T EXCEPT !.pc = "returned", !.depth = 0]
      [] out = "rate_limited" -> [T EXCEPT !.pc = "sleep"]
      [] OTHER -> [T EXCEPT !.pc = "fallback"]

\* time.sleep(10) is over: `return restricted_web_search(query)` (line 111).
\* A callable tool object runs the function again, one level deeper.  On an
\* object that is not callable the call raises TypeError, which leaves the
\* function, and @retry calls the function again at the same depth.
ToolRecurse(T) ==
    IF T.callable
    THEN [T EXCEPT !.pc = "attempt", !.depth = @ + 1]
    ELSE [T EXCEPT !.pc = "attempt"]

\* search.results(fallback_query, 5) (line 117) is over, with a result or an
\* exception.  The return statement of lines 122-126 reads fallback_exception,
\* which is unbound after the except clause: UnboundLocalError leaves the
\* function and @retry calls the function again.
ToolFallback(T) == [T EXCEPT !.pc = "attempt"]

----------------------------------------------------------------------------
\* CommonHelpers.check_rate_limit (src/helpers/common_helpers.py)

\* The last instant of the clock; time is counted in units of 5 s.
MaxTime == 6
\* self.rate_limit_seconds[operation]: 10 s for both operations, 2 units.
rate_limit_seconds == 2
\* The keys of self.rate_limiter and self.rate_limit_seconds.
Operations == {"web_search", "reddit_search"}
\* No return of check_rate_limit yet.
Never == -1

\* CommonHelpers.__init__ at time 0: every operation is stamped time.time().
\* For each operation: the running call (pc, its current_time, the requested
\* sleep and when it is over) and what the calls so far did (the time since
\* the stamp at the last entry, the times of the last two returns).
NewLimiter ==
    [now |-> 0,
     rate_limiter |-> [o \in Operations |-> 0],
     pc |-> [o \in Operations |-> "idle"],
     current_time |-> [o \in Operations |-> 0],
     elapsed |-> [o \in Operations |-> 0],
     slept |-> [o \in Operations |-> 0],
     wake |-> [o \in Operations |-> 0],
     last_return |-> [o \in Operations |-> Never],
     prev_return |-> [o \in Operations |-> Never]]

\* As last_operation, with one stamp shared by all operations.
last_operationShared(L, o) ==
    CHOOSE t \in Range(L.rate_limiter) : \A u \in Range(L.rate_limiter) : u <= t

\* last_operation = self.rate_limiter.get(operation, 0)
last_operation(L, o) == L.rate_limiter[o]

\* check_rate_limit returns at the present time.
LimiterReturn(L, o) ==
    [L EXCEPT !.pc[o] = "idle",
              !.prev_return[o] = L.last_return[o],
              !.last_return[o] = L.now]

\* check_rate_limit(operation) from its entry to its return or to its sleep.
LimiterEnter(L, o) ==
    LET current_time == L.now
        L1 == [L EXCEPT !.current_time[o] = current_time,
                        !.elapsed[o] = current_time - last_operation(L, o)]
    IN IF current_time - last_operation(L, o) < rate_limit_seconds
       THEN [L1 EXCEPT !.pc[o] = "sleeping", !.slept[o] = rate_limit_seconds,
                       !.wake[o] = L.now + rate_limit_seconds]
       ELSE LimiterReturn([L1 EXCEPT !.slept[o] = 0,
                                     !.rate_limiter[o] = current_time], o)

\* check_rate_limit after its sleep: the stamp and the return.
LimiterResume(L, o) ==
    LimiterReturn([L EXCEPT !.rate_limiter[o] = L.current_time[o]], o)

----------------------------------------------------------------------------
\* BotHandler.handle_request (src/handlers/bot_handler.py)

\* Longest sources_used / pdf_links list of a pipeline result, and longest
\* tools_used list of a plain mapping.
MaxListLen == 2
\* tools_used: list[str] = Field(min_items=3)
MinTools == 3
\* Longest tools_used list of a Response model.
MaxTools == 4

SeqsUpTo(S, n) == UNION {[1..k -> S] : k \in 0..n}

\* An entry of sources_used / pdf_links is a mapping ("dict") or a value
\* without .get ("str"); an entry of tools_used is a string or not.
SourceKinds == {"dict", "str"}
ToolKinds == {"str", "int"}
ResultKeys == {"topic", "summary"}

\* A Response model (research_pipeline.py 22-36): topic and summary are
\* present, sources_used and pdf_links hold dicts (empty by default), and
\* tools_used holds at least MinTools strings.
ModelResults ==
    {[kind |-> "model", keys |-> ResultKeys, sources_used |-> s_,
      pdf_links |-> p_, tools_used |-> t_] :
        s_ \in SeqsUpTo({"dict"}, MaxListLen),
        p_ \in SeqsUpTo({"dict"}, MaxListLen),
        t_ \in UNION {[1..k -> {"str"}] : k \in MinTools..MaxTools}}

\* A plain mapping: any of the two keys may be missing, the lists hold
\* anything.
DictResults ==
    {[kind |-> "dict", keys |-> k_, sources_used |-> s_,
      pdf_links |-> p_, tools_used |-> t_] :
        k_ \in SUBSET ResultKeys,
        s_ \in SeqsUpTo(SourceKinds, MaxListLen),
        p_ \in SeqsUpTo(SourceKinds, MaxListLen),
        t_ \in SeqsUpTo(ToolKinds, MaxListLen)}

NoFields == [keys |-> {}, sources_used |-> <<>>, pdf_links |-> <<>>, tools_used |-> <<>>]

\* What `await self.research_pipeline.process_query(query)` hands over: a
\* model, a mapping, a value of another type, an exception, or ("cancel") the
\* asyncio.CancelledError that is thrown into the await when the task that
\* runs handle_request is cancelled.
PipelineResults ==
    ModelResults \cup DictResults
        \cup {[kind |-> "other"] @@ NoFields, [kind |-> "raise"] @@ NoFields,
              [kind |-> "cancel"] @@ NoFields}

\* The exception classes that the body of handle_request can raise.
\* CancelledError derives from BaseException, the others from Exception.
ExceptionClasses ==
    {"Exception", "ValueError", "KeyError", "AttributeError", "TypeError",
     "CancelledError"}

\* create_response for a message that is a dict (the only kind handle_request
\* passes): with a "status" key the status is taken from the message,
\* otherwise from the status code.
create_response(status_code, message) ==
    IF "status" \in DOMAIN message
    THEN [status |-> message.status, status_code |-> status_code, message |-> message]
    ELSE [status |-> IF status_code < 400 THEN "success" ELSE "error",
          status_code |-> status_code, message |-> message]

\* The formatted content, as the list of its parts.
FormattedContent(r) ==
    <<"topic", "summary">> \o
    (IF r.sources_used # <<>> \/ r.pdf_links # <<>>
     THEN <<"Sources:">> \o [i \in DOMAIN r.sources_used |-> "source"]
                         \o [i \in DOMAIN r.pdf_links |-> "pdf"]
                         \o (IF r.tools_used # <<>>
                             THEN <<"Analysis Methods:", "tools">> ELSE <<>>)
     ELSE <<"Analysis Methods:">> \o [i \in DOMAIN r.tools_used |-> "tool"])

\* Lines 25-93 of handle_request: the exception the statements raise, or
\* "none".  The await of line 25 raises what process_query raises or the
\* CancelledError thrown into it; an unexpected type raises ValueError (36), a missing 'topic' or
\* 'summary' KeyError (41), source.get / pdf.get on a value that is no mapping
\* AttributeError (59, 66), ", ".join of a non-string TypeError (72).
BodyRaises(r) ==
    CASE r.kind = "raise" -> "Exception"
      [] r.kind = "cancel" -> "CancelledError"
      [] r.kind = "other" -> "ValueError"
      [] r.kind \in {"model", "dict"} /\ r.keys # ResultKeys -> "KeyError"
      [] OTHER ->
           IF r.sources_used # <<>> \/ r.pdf_links # <<>>
           THEN IF "str" \in Range(r.sources_used) \cup Range(r.pdf_links)
                THEN "AttributeError"
                ELSE IF "int" \in Range(r.tools_used) THEN "TypeError" ELSE "none"
           ELSE "none"

\* The message of lines 82-90.
Message(r) ==
    [content |-> FormattedContent(r),
     sources |-> IF r.sources_used # <<>> THEN r.sources_used ELSE r.tools_used,
     topic |-> "topic", summary |-> "summary", status |-> "success",
     pdf_links |-> r.pdf_links]

\* The message of lines 98-106.
ErrorMessage(exc) ==
    [content |-> <<"Error processing request:", exc>>,
     sources |-> <<>>, topic |-> "Error",
     summary |-> <<"An error occurred:", exc>>, status |-> "error",
     pdf_links |-> <<>>]

\* A variant of ExceptCatches for a handler written `except ValueError`.
ExceptCatchesValueError(exc) == exc = "ValueError"

\* `except Exception as e` (line 95): every exception class of the body that
\* derives from Exception, that is every one but CancelledError.
ExceptCatches(exc) == exc \in ExceptionClasses \ {"CancelledError"}

NoResponse == [status_code |-> 0]

NewHandler == [pc |-> "idle", result |-> [kind |-> "none"] @@ NoFields,
               response |-> NoResponse, exc |-> "none"]

\* handle_request up to `await self.research_pipeline.process_query(query)`
HandleRequestStart(H) == [H EXCEPT !.pc = "pipeline"]

\* handle_request from the point where process_query hands over r: the
\* response returned, or the exception that leaves the call.  In the handler,
\* handle_exceptions -> report_to_discord catches whatever the report raises
\* (common_helpers.py 95-165).
handle_request(H, r) ==
    LET exc == BodyRaises(r) IN
    IF exc = "none"
    THEN [H EXCEPT !.pc = "returned", !.result = r,
                   !.response = create_response(200, Message(r))]
    ELSE IF ExceptCatches(exc)
         THEN [H EXCEPT !.pc = "returned", !.result = r,
                        !.response = create_response(500, ErrorMessage(exc))]
         ELSE [H EXCEPT !.pc = "raised", !.result = r, !.exc = exc]

----------------------------------------------------------------------------
\* CommonHelpers.handle_api_error (src/helpers/common_helpers.py)

\* Largest retry_count a caller passes.
MaxRetryCount == 4

\* `retry_delay = 40`
RateLimitDelay == 40
\* The delay that a "retry_delay ... seconds: N}" part of the message carries.
HintedDelay == 7

\* str(error).lower(), by what the classification looks for: a rate-limit word
\* ("429", "quota", "rate limit"), a data-structure word ("none",
\* "subscriptable", "key", "index", "attribute"), a network word
\* ("connection", "timeout", "network"), and the "retry_delay" part, which is
\* absent, followed by "seconds: N}" or not of that form.
ErrorTexts ==
    [rate : BOOLEAN, data : BOOLEAN, net : BOOLEAN,
     retry_delay : {"absent", "parsable", "unparsable"}]

Pow2(k) == IF k = 0 THEN 1 ELSE IF k = 1 THEN 2 ELSE IF k = 2 THEN 4
           ELSE IF k = 3 THEN 8 ELSE 16

NewApiError == [pc |-> "idle",
                error |-> [rate |-> FALSE, data |-> FALSE, net |-> FALSE,
                           retry_delay |-> "absent"],
                retry_count |-> 0, max_retries |-> max_retries,
                delay |-> 0, result |-> "None"]

\* handle_api_error(error, retry_count, max_retries) up to its first
\* suspension or its return.
handle_api_error(error, retry_count, max_retries_) ==
    LET A == [NewApiError EXCEPT !.error = error, !.retry_count = retry_count,
                                 !.max_retries = max_retries_]
    IN
    IF retry_count >= max_retries_
    THEN [A EXCEPT !.pc = "returned", !.result = "False"]
    ELSE IF error.rate
    THEN [A EXCEPT !.pc = "sleeping",
                   !.delay = IF error.retry_delay = "parsable"
                             THEN HintedDelay ELSE RateLimitDelay]
    ELSE IF error.data
    THEN [A EXCEPT !.pc = "returned", !.result = "False"]
    ELSE IF error.net
    THEN [A EXCEPT !.pc = "sleeping", !.delay = Pow2(retry_count)]
    ELSE [A EXCEPT !.pc = "returned", !.result = "False"]

\* handle_api_error after its sleep: return True
ApiErrorResume(A) == [A EXCEPT !.pc = "returned", !.result = "True"]

----------------------------------------------------------------------------
QueueManagerInit ==
    /\ queue = <<>>
    /\ getters = <<>>
    /\ putters = <<>>
    /\ ready = <<>>
    /\ active_items = EmptyDict
    /\ queue_file = EmptyDict
    /\ processor_task = "none"
    /\ cpc = "none"
    /\ ccancel = "no"
    /\ cdying = FALSE
    /\ hres = "none"
    /\ is_processing = FALSE
    /\ current_item = NoJob
    /\ upd = [u \in Owners |-> IdleUpd]
    /\ ppc = [j \in Jobs |-> "new"]
    /\ ret = [j \in Jobs |-> 0]
    /\ detached = EmptyDict
    /\ cleanup = {}
    /\ nextId = 1
    /\ epoch = 0
    /\ shut = "idle"
    /\ nshut = 0
    /\ consumers = 0
    /\ notifier_calls = [j \in Jobs |-> <<>>]
    /\ max_queue_size \in 1..MaxCapacity

\* The queue manager on its own: what handle_request does with a job is given
\* by OutcomesOf, and the pipeline object is left alone.
Init ==
    /\ QueueManagerInit
    /\ pipeline = NewPipeline(WorkingProviders)
    /\ search = NewSearch
    /\ tool = NewTool
    /\ limiter = NewLimiter
    /\ handler = NewHandler
    /\ api_error = NewApiError
    /\ disk = "ok"
    /\ discord = "ok"

\* (environment) a caller's task that calls add_to_queue becomes ready
Arrive(j) ==
    /\ j = nextId
    /\ epoch > 0 =>
          Cardinality({i \in Jobs : ppc[i] \notin {"new", "lost"}}) < MaxJobsAfterRestart
    /\ nshut > 0 =>
          Cardinality({i \in Jobs : ppc[i] \notin {"new", "lost"}}) < MaxJobsWithShutdown
    /\ Cardinality({i \in Jobs : ppc[i] \in {"called", "updating"}}) < MaxInFlight
    /\ Commit([State EXCEPT !.nextId = j + 1, !.ppc[j] = "called",
                            !.ready = Append(@, CB("call", j))])

\* start_processor is called
StartProcessor == Commit(start_processor(State))

\* (environment) a caller's task that calls shutdown() becomes ready
ShutdownArrive ==
    /\ shut = "idle"
    /\ nshut < MaxShutdowns
    /\ Cardinality({i \in Jobs : ppc[i] \notin {"new", "lost"}}) <= MaxJobsWithShutdown
    /\ Commit([State EXCEPT !.shut = "called", !.nshut = @ + 1, !.ready = Append(@, CB("shutcall", 0))])

\* shutdown: the task is cancelled and awaited; without a live task the state
\* is saved at once
ShutdownStep(S) ==
    IF S.processor_task = "live"
    THEN [CancelConsumer(S) EXCEPT !.shut = "waiting"]
    ELSE [save_queue_state(S) EXCEPT !.shut = "idle"]

\* shutdown after `await self.processor_task`: _save_queue_state()
ShutdownResume(S) == [save_queue_state(S) EXCEPT !.shut = "idle"]

\* shutdown up to `await self.processor_task`
ShutdownCall ==
    /\ HeadIs("shutcall", 0)
    /\ Commit(ShutdownStep(Popped))

\* shutdown after the processor task has ended: _save_queue_state()
ShutdownWake ==
    /\ HeadIs("shutwake", 0)
    /\ Commit(ShutdownResume(Popped))

RunAddCall(j) ==
    /\ HeadIs("call", j)
    /\ Commit(AddCall(Popped, j))

RunAddResume(j) ==
    /\ HeadIs("task", j)
    /\ Commit(AddResume(Popped, j))

RunInner(u) ==
    /\ HeadIs("inner", u)
    /\ Commit(InnerStep(Popped, u))

RunRelease(u) ==
    /\ HeadIs("rel", u)
    /\ Commit(ReleaseStep(Popped, u))

\* With working Discord calls there is nothing to choose.
NotifierChoices == IF discord = "ok" THEN {[finish |-> TRUE, started |-> TRUE]}
                   ELSE NotifierIO

RunConsumer ==
    /\ HeadIs("task", 0)
    /\ \E io \in NotifierChoices : Commit(ConsumerStep(Popped, io))

\* (environment) the 0.1 s timer of wait_for runs _release_waiter while the
\* waiter is pending: the inner get is blocked, or a put has woken it and its
\* step is scheduled, or it has got its item and its done-callback is
\* scheduled.  The waiter is set and the caller is scheduled.
Timeout(u) ==
    /\ upd[u].st \in {"blocked", "woken", "got"}
    /\ ~(u = 0 /\ ccancel # "no")
    /\ Commit([State EXCEPT !.upd[u].st = CASE @ = "blocked" -> "timedout"
                                            [] @ = "woken" -> "timedout_woken"
                                            [] @ = "got" -> "released",
                            !.ready = Append(@, CB("task", u))])

ConsumerWaitsIO(where) ==
    /\ cpc \in where
    /\ ccancel = "no"
    /\ CB("task", 0) \notin Range(ready)

\* (environment) bot_handler.handle_request returns a response
HandleReturns ==
    /\ ConsumerWaitsIO({"handle"})
    /\ "ok" \in OutcomesOf(current_item)
    /\ Commit([State EXCEPT !.hres = "ok", !.ready = Append(@, CB("task", 0))])

\* (environment) the research pipeline failed: process_query returns its
\* "Analysis failed" answer (or handle_request catches the exception) and
\* handle_request returns an answer built from it
HandleReturnsError ==
    /\ ConsumerWaitsIO({"handle"})
    /\ "error_response" \in OutcomesOf(current_item)
    /\ Commit([State EXCEPT !.hres = "error_response", !.ready = Append(@, CB("task", 0))])

\* (environment) bot_handler.handle_request raises an Exception
HandleRaises ==
    /\ ConsumerWaitsIO({"handle"})
    /\ "exc" \in OutcomesOf(current_item)
    /\ Commit([State EXCEPT !.hres = "exc", !.ready = Append(@, CB("task", 0))])

\* (environment) bot_handler.handle_request raises asyncio.CancelledError, a
\* BaseException: the one exception that BotHandler.handle_request, which
\* catches Exception itself, lets out
HandleRaisesCancelled ==
    /\ ConsumerWaitsIO({"handle"})
    /\ "exc" \in OutcomesOf(current_item)
    /\ Commit([State EXCEPT !.hres = "cancelled", !.ready = Append(@, CB("task", 0))])

\* (environment) the notifier call the consumer awaits returns
NotifyReturns ==
    /\ ConsumerWaitsIO({"notify", "send"})
    /\ Commit([State EXCEPT !.ready = Append(@, CB("task", 0))])

\* _cleanup_item after its sleep of 300 s: the item leaves active_items.  The
\* add_to_queue call that built the item may still be suspended in the
\* put-back loop of _update_queue_positions (queue.put on a full queue waits
\* without a timeout); it keeps the object.
CleanupItem(j) ==
    /\ j \in cleanup
    /\ Commit([State EXCEPT !.cleanup = @ \ {j},
                            !.active_items = DictDel(@, j),
                            !.detached = IF ppc[j] = "updating" /\ j \in DOMAIN active_items
                                         THEN DictPut(@, j, active_items[j])
                                         ELSE @])

\* What a callback takes from outside: the behaviour of the Discord calls.
StepInputs == [io : NotifierIO]

\* The event loop runs the callback at the head of its ready queue.
RunHead(S, in) ==
    LET cb == Head(S.ready)
        P == [S EXCEPT !.ready = Tail(@), !.trail = <<>>]
    IN CASE cb.k = "call" -> AddCall(P, cb.u)
         [] cb.k = "task" /\ cb.u = 0 -> ConsumerStep(P, in.io)
         [] cb.k = "task" /\ cb.u # 0 -> AddResume(P, cb.u)
         [] cb.k = "inner" -> InnerStep(P, cb.u)
         [] cb.k = "rel" -> ReleaseStep(P, cb.u)
         [] cb.k = "shutcall" -> ShutdownStep(P)
         [] cb.k = "shutwake" -> ShutdownResume(P)

\* What the process can leave behind when it is killed: the snapshot file
\* and the notifier methods invoked so far, as they are between two callbacks
\* or at a point inside the callback that runs next: after a notifier method
\* was invoked and before the snapshot is written (148-190), after
\* open(self.queue_file, 'w') truncated the file and before json.dump (217,
\* 218), after the snapshot was written and before the next job's
\* notify_processing_started (190, 131-143).
KillPoints ==
    {Leaves(State)} \cup
    (IF ready = <<>> THEN {}
     ELSE UNION {Range(RunHead(State, [io |-> i]).trail) : i \in NotifierChoices})

\* (environment) the process is killed and started again: QueueManager.__init__
\* and its _load_queue_state.  json.load raises on an empty file,
\* _load_queue_state catches and logs it, and active_items stays empty: the
\* empty file loads like a snapshot without items.
Restart ==
    /\ epoch < MaxRestarts
    /\ queue' = <<>>
    /\ getters' = <<>>
    /\ putters' = <<>>
    /\ ready' = <<>>
    /\ \E left \in KillPoints :
          /\ queue_file' = left.file
          /\ active_items' = load_queue_state(left.file)
          /\ notifier_calls' = left.calls
    /\ processor_task' = "none"
    /\ cpc' = "none"
    /\ ccancel' = "no"
    /\ cdying' = FALSE
    /\ hres' = "none"
    /\ is_processing' = FALSE
    /\ current_item' = NoJob
    /\ upd' = [u \in Owners |-> IdleUpd]
    /\ ppc' = [j \in Jobs |-> IF ppc[j] = "new" THEN "new" ELSE "lost"]
    /\ ret' = [j \in Jobs |-> 0]
    /\ detached' = EmptyDict
    /\ cleanup' = {}
    /\ epoch' = epoch + 1
    /\ shut' = "idle"
    /\ nshut' = nshut
    /\ consumers' = 0
    /\ UNCHANGED <<nextId, max_queue_size, pipeline, search, tool, limiter, disk, discord, handler, api_error>>

Next ==
    \/ \E j \in Jobs : Arrive(j)
    \/ StartProcessor
    \/ ShutdownArrive
    \/ ShutdownCall
    \/ ShutdownWake
    \/ \E j \in Jobs : RunAddCall(j)
    \/ \E j \in Jobs : RunAddResume(j)
    \/ \E u \in Owners : RunInner(u)
    \/ \E u \in Owners : RunRelease(u)
    \/ RunConsumer
    \/ \E u \in Owners : Timeout(u)
    \/ HandleReturns
    \/ HandleReturnsError
    \/ HandleRaises
    \/ HandleRaisesCancelled
    \/ NotifyReturns
    \/ \E j \in Jobs : CleanupItem(j)
    \/ Restart

Spec == Init /\ [][Next]_vars

\* The queue manager with a snapshot file that cannot be written.
FailingDiskInit ==
    /\ QueueManagerInit
    /\ pipeline = NewPipeline(WorkingProviders)
    /\ search = NewSearch
    /\ tool = NewTool
    /\ limiter = NewLimiter
    /\ handler = NewHandler
    /\ api_error = NewApiError
    /\ disk = "failing"
    /\ discord = "ok"

FailingDiskSpec == FailingDiskInit /\ [][Next]_vars

\* The queue manager with a notifier whose Discord calls all fail.
FailingDiscordInit ==
    /\ QueueManagerInit
    /\ pipeline = NewPipeline(WorkingProviders)
    /\ search = NewSearch
    /\ tool = NewTool
    /\ limiter = NewLimiter
    /\ handler = NewHandler
    /\ api_error = NewApiError
    /\ disk = "ok"
    /\ discord = "failing"

FailingDiscordSpec == FailingDiscordInit /\ [][Next]_vars

----------------------------------------------------------------------------
\* The pipeline on its own: process_query calls on one ResearchPipeline object.

queue_vars == <<queue, getters, putters, ready, active_items, queue_file, processor_task,
                cpc, ccancel, cdying, hres, is_processing, current_item, upd, ppc, ret,
                detached, cleanup, nextId, epoch, shut, nshut, consumers, max_queue_size, notifier_calls,
                disk, discord>>

not_pipeline == <<queue_vars, search, tool, limiter, handler, api_error>>

PipelineInit ==
    /\ QueueManagerInit
    /\ pipeline \in {NewPipeline(l) : l \in ProviderLists}
    /\ search = NewSearch
    /\ tool = NewTool
    /\ limiter = NewLimiter
    /\ handler = NewHandler
    /\ api_error = NewApiError
    /\ disk = "ok"
    /\ discord = "ok"

\* (environment) process_query is called; calls on one object do not overlap
\* (the queue's consumer awaits one handle_request at a time)
ProcessQuery ==
    /\ pipeline.pc \in {"idle", "done"}
    /\ pipeline.calls < MaxCalls
    /\ pipeline' = StartCall(pipeline)
    /\ UNCHANGED not_pipeline

\* (environment) the provider invoked by optimize_search_query answers
OptimizeAnswer ==
    /\ pipeline.pc = "optimize"
    /\ pipeline' = OptimizeStep(pipeline)
    /\ UNCHANGED not_pipeline

\* (timer) the sleep of optimize_search_query is over
OptimizeSleepDone ==
    /\ pipeline.pc = "optimize_sleep"
    /\ pipeline' = OptimizeResume(pipeline)
    /\ UNCHANGED not_pipeline

\* (environment) gather_research_data returns the research data
GatherReturns ==
    /\ pipeline.pc = "gather"
    /\ pipeline' = GatherStep(pipeline, "none")
    /\ UNCHANGED not_pipeline

\* (environment) gather_research_data raises an Exception, or the
\* CancelledError of a cancelled task comes up in it
GatherRaises ==
    /\ pipeline.pc = "gather"
    /\ \E raised \in {"Exception", "CancelledError"} :
          pipeline' = GatherStep(pipeline, raised)
    /\ UNCHANGED not_pipeline

\* (environment) the task that runs process_query is cancelled while the call
\* awaits a provider (optimize_search_query, generate_response) or one of the
\* sleeps that follow a failed provider
ProcessQueryCancelled ==
    /\ pipeline.pc \in {"optimize", "optimize_sleep", "generate", "generate_sleep"}
    /\ pipeline' = CancelCall(pipeline)
    /\ UNCHANGED not_pipeline

\* (environment) generate_response on the current provider returns or raises
GenerateAnswer ==
    /\ pipeline.pc = "generate"
    /\ pipeline' = GenerateStep(pipeline)
    /\ UNCHANGED not_pipeline

\* (timer) the sleep of process_query's generation loop is over
GenerateSleepDone ==
    /\ pipeline.pc = "generate_sleep"
    /\ pipeline' = GenerateResume(pipeline)
    /\ UNCHANGED not_pipeline

PipelineNext ==
    \/ ProcessQuery
    \/ OptimizeAnswer
    \/ OptimizeSleepDone
    \/ GatherReturns
    \/ GatherRaises
    \/ ProcessQueryCancelled
    \/ GenerateAnswer
    \/ GenerateSleepDone

PipelineSpec == PipelineInit /\ [][PipelineNext]_vars

----------------------------------------------------------------------------
\* The web search on its own: search calls on one SearchAPIManager object, and
\* a restricted_web_search call.

not_search == <<queue_vars, pipeline, tool, limiter, handler, api_error>>
not_tool == <<queue_vars, pipeline, search, limiter, handler, api_error>>

SearchInit ==
    /\ QueueManagerInit
    /\ pipeline = NewPipeline(WorkingProviders)
    /\ search = NewSearch
    /\ tool \in {[NewTool EXCEPT !.callable = c] : c \in BOOLEAN}
    /\ limiter = NewLimiter
    /\ handler = NewHandler
    /\ api_error = NewApiError
    /\ disk = "ok"
    /\ discord = "ok"

\* (environment) search is called; web_search awaits one search at a time
SearchCall ==
    /\ search.pc \in {"idle", "returned", "raised"}
    /\ search.calls < MaxSearchCalls
    /\ search' = SearchStart(search)
    /\ UNCHANGED not_search

\* search runs one iteration of its for loop
SearchTry ==
    /\ search.pc = "for"
    /\ \E out \in SearchOutcomes : search' = ForStep(search, out)
    /\ UNCHANGED not_search

\* (timer) the sleep between two rounds is over
SearchSleepDone ==
    /\ search.pc = "sleep"
    /\ search.sleep_left = 0
    /\ search' = SearchResume(search)
    /\ UNCHANGED not_search

\* (environment) time passes
Tick ==
    /\ SearchTick(search) # search
    /\ search' = SearchTick(search)
    /\ UNCHANGED not_search

\* (environment) restricted_web_search is called
ToolCall ==
    /\ tool.pc \in {"idle", "returned"}
    /\ tool' = ToolStart(tool)
    /\ UNCHANGED not_tool

\* (environment) the first DuckDuckGo search of an attempt is over
ToolSearchDone ==
    /\ tool.pc = "attempt"
    /\ \E out \in SearchOutcomes \ {"empty"} :
          /\ out = "rate_limited" => (~tool.callable \/ tool.depth < MaxDepth)
          /\ tool' = ToolAttempt(tool, out)
    /\ UNCHANGED not_tool

\* time.sleep(10) is over
ToolSleepDone ==
    /\ tool.pc = "sleep"
    /\ tool' = ToolRecurse(tool)
    /\ UNCHANGED not_tool

\* (environment) the second DuckDuckGo search of an attempt is over
ToolFallbackDone ==
    /\ tool.pc = "fallback"
    /\ tool' = ToolFallback(tool)
    /\ UNCHANGED not_tool

SearchNext ==
    \/ SearchCall
    \/ SearchTry
    \/ SearchSleepDone
    \/ Tick
    \/ ToolCall
    \/ ToolSearchDone
    \/ ToolSleepDone
    \/ ToolFallbackDone

\* The program's own steps are taken when they can be, and time passes; what
\* the backends answer is not constrained.
SearchSpec ==
    /\ SearchInit
    /\ [][SearchNext]_vars
    /\ WF_vars(SearchTry)
    /\ WF_vars(SearchSleepDone)
    /\ WF_vars(Tick)
    /\ WF_vars(ToolSearchDone)
    /\ WF_vars(ToolSleepDone)
    /\ WF_vars(ToolFallbackDone)

----------------------------------------------------------------------------
\* The rate limiter on its own: check_rate_limit calls on one CommonHelpers
\* object; the calls for one operation follow one another, calls for
\* different operations may overlap.

not_limiter == <<queue_vars, pipeline, search, tool, handler, api_error>>

LimiterInit ==
    /\ QueueManagerInit
    /\ pipeline = NewPipeline(WorkingProviders)
    /\ search = NewSearch
    /\ tool = NewTool
    /\ limiter = NewLimiter
    /\ handler = NewHandler
    /\ api_error = NewApiError
    /\ disk = "ok"
    /\ discord = "ok"

\* (environment) check_rate_limit(o) is called
CheckRateLimit(o) ==
    /\ limiter.pc[o] = "idle"
    /\ limiter' = LimiterEnter(limiter, o)
    /\ UNCHANGED not_limiter

\* (timer) the sleep of the call for o is over
LimiterSleepDone(o) ==
    /\ limiter.pc[o] = "sleeping"
    /\ limiter.now >= limiter.wake[o]
    /\ limiter' = LimiterResume(limiter, o)
    /\ UNCHANGED not_limiter

\* (environment) 5 s pass
ClockTick ==
    /\ limiter.now < MaxTime
    /\ limiter' = [limiter EXCEPT !.now = @ + 1]
    /\ UNCHANGED not_limiter

LimiterNext ==
    \/ \E o \in Operations : CheckRateLimit(o)
    \/ \E o \in Operations : LimiterSleepDone(o)
    \/ ClockTick

LimiterSpec == LimiterInit /\ [][LimiterNext]_vars

----------------------------------------------------------------------------
\* handle_request on its own: calls on one BotHandler.

not_handler == <<queue_vars, pipeline, search, tool, limiter, api_error>>

HandlerInit ==
    /\ QueueManagerInit
    /\ pipeline = NewPipeline(WorkingProviders)
    /\ search = NewSearch
    /\ tool = NewTool
    /\ limiter = NewLimiter
    /\ handler = NewHandler
    /\ api_error = NewApiError
    /\ disk = "ok"
    /\ discord = "ok"

\* (environment) handle_request(query, user_id, channel_id) is called
HandleRequestCall ==
    /\ handler.pc \in {"idle", "returned", "raised"}
    /\ handler' = HandleRequestStart(NewHandler)
    /\ UNCHANGED not_handler

\* (environment) process_query hands over r and handle_request runs to its end
HandleRequestResume(r) ==
    /\ handler.pc = "pipeline"
    /\ handler' = handle_request(handler, r)
    /\ UNCHANGED not_handler

HandlerNext ==
    \/ HandleRequestCall
    \/ \E r \in PipelineResults : HandleRequestResume(r)

HandlerSpec == HandlerInit /\ [][HandlerNext]_vars

----------------------------------------------------------------------------
\* handle_api_error on its own: calls on one CommonHelpers object, from the
\* initial state in which no call has been made (HandlerInit).

not_api_error == <<queue_vars, pipeline, search, tool, limiter, handler>>

\* (environment) handle_api_error(error, retry_count, max_retries) is called
HandleApiErrorCall(error, retry_count, max_retries_) ==
    /\ api_error.pc \in {"idle", "returned"}
    /\ api_error' = handle_api_error(error, retry_count, max_retries_)
    /\ UNCHANGED not_api_error

\* (timer) the sleep of handle_api_error is over
ApiErrorSleepDone ==
    /\ api_error.pc = "sleeping"
    /\ api_error' = ApiErrorResume(api_error)
    /\ UNCHANGED not_api_error

ApiErrorNext ==
    \/ \E error \in ErrorTexts, k \in 0..MaxRetryCount, m \in 1..max_retries :
           HandleApiErrorCall(error, k, m)
    \/ ApiErrorSleepDone

ApiErrorSpec == HandlerInit /\ [][ApiErrorNext]_vars

----------------------------------------------------------------------------
\* Properties

QueuedJobs(items) == {j \in DOMAIN items : items[j].status = "queued"}
\* 0-based rank of job j among the Queued jobs, in submission order
Rank(items, j) == Cardinality({i \in QueuedJobs(items) : i < j})
RECURSIVE InSubmissionOrder(_)
InSubmissionOrder(set) ==
    IF set = {} THEN <<>>
    ELSE LET m == Min(set) IN <<m>> \o InSubmissionOrder(set \ {m})
\* the step in which the add_to_queue call of job j runs its first part
AddCallRuns(j) == ppc[j] = "called" /\ ppc'[j] \notin {"called", "lost"}
\* the step in which the consumer leaves the finally block normally
FinallyEnds == cpc \in {"send", "update"} /\ cpc' \notin {"send", "update", "done"}
\* the persisted snapshot holds exactly the tracked jobs with their statuses
SnapshotCurrent ==
    /\ DOMAIN queue_file = DOMAIN active_items
    /\ \A j \in DOMAIN active_items : queue_file[j].status = active_items[j].status

\* C1: an add_to_queue call that finds the pending depth >= max_queue_size
\* raises QueueFull, and the step changes nothing: the rejected job is neither
\* pending nor tracked, no item (so no position) changes, nothing is persisted.
C1_FullRejectsUnchanged ==
    [][\A j \in Jobs :
          (AddCallRuns(j) /\ Len(queue) >= max_queue_size) =>
              /\ ppc'[j] = "full"
              /\ j \notin Range(queue')
              /\ j \notin DOMAIN active_items'
              /\ queue' = queue
              /\ active_items' = active_items
              /\ queue_file' = queue_file]_vars

\* A call was rejected at a full queue.
C1_Witness ==
    \E j \in Jobs : /\ ppc[j] = "full"
                    /\ Len(queue) = max_queue_size
                    /\ j \notin DOMAIN active_items

\* C2: at most one tracked job has status "processing".
C2_AtMostOneProcessing ==
    Cardinality({j \in DOMAIN active_items :
                    active_items[j].status = "processing"}) <= 1

\* C3: within one run a job's status only moves queued -> processing ->
\* completed/failed; a terminal job keeps its status, result and error; a
\* failed job is not in the pending queue nor about to be put back into it.
StatusMoves ==
    {<<"queued", "processing">>, <<"processing", "completed">>,
     <<"processing", "failed">>}
C3_StatusForward ==
    [][epoch' = epoch =>
          \A j \in (DOMAIN active_items) \cap (DOMAIN active_items') :
              LET a == active_items[j]
                  b == active_items'[j]
              IN /\ a.status # b.status => <<a.status, b.status>> \in StatusMoves
                 /\ a.status \in {"completed", "failed"} =>
                        (b.status = a.status /\ b.result = a.result /\ b.error = a.error)
                 /\ b.status = "failed" =>
                        /\ j \notin Range(queue')
                        /\ \A u \in Owners : j \notin Range(upd'[u].temp)
                                             /\ upd'[u].res # j]_vars

\* One job has failed and another has completed, and the consumer waits for
\* the next job.
C3_Witness ==
    /\ cpc = "get"
    /\ \E i, j \in DOMAIN active_items :
          /\ active_items[i].status = "failed" /\ active_items[i].error # "None"
          /\ active_items[j].status = "completed" /\ active_items[j].result # "None"

\* C4: whenever no position recomputation is under way, the position of every
\* Queued job is its 0-based rank among the Queued jobs.
C4_PositionIsRank ==
    (\A u \in Owners : upd[u].st = "off") =>
        \A j \in QueuedJobs(active_items) :
            active_items[j].position = Rank(active_items, j)

\* C5: with no dequeue so far in this run, two add_to_queue calls that arrived
\* one after the other return positions that differ by exactly one.
C5_ReturnedPositionsGapFree ==
    processor_task = "none" =>
        \A j \in Jobs :
            (j + 1 \in Jobs /\ ppc[j] = "ok" /\ ppc[j + 1] = "ok") =>
                ret[j + 1] = ret[j] + 1

\* C6: when the consumer has recomputed the positions after a dequeued job,
\* the job that runs next has position 0 and the jobs behind it follow in
\* steps of one.
C6_RecomputeFromZero ==
    [][(epoch' = epoch /\ FinallyEnds) =>
          LET pend == (IF current_item' # NoJob THEN <<current_item'>> ELSE <<>>)
                      \o queue'
          IN \A i \in 1..Len(pend) : active_items'[pend[i]].position = i - 1]_vars

\* C7: capacity 2, calls made one after the other with no consumer: the first
\* returns position 0, the second position 1, the third raises QueueFull; and
\* once the consumer has dequeued job 1, the position of job 2's user is 0.
C7_First ==
    (max_queue_size = 2 /\ processor_task = "none" /\ ppc[1] = "ok" /\ ppc[2] = "new")
        => ret[1] = 0
C7_Second ==
    (max_queue_size = 2 /\ processor_task = "none" /\ ppc[1] = "ok" /\ ppc[2] = "ok"
     /\ ppc[3] = "new" /\ queue = <<1, 2>>) => ret[2] = 1
C7_Third ==
    (max_queue_size = 2 /\ AddCallRuns(3) /\ ppc[1] = "ok" /\ ppc[2] = "ok"
     /\ queue = <<1, 2>>) => ppc'[3] = "full"
C7_AfterDequeue ==
    (max_queue_size = 2 /\ current_item = 1 /\ ppc[2] = "ok"
     /\ 2 \in QueuedJobs(active_items))
        => get_user_queue_position(active_items, UserOf(2)) = 0
C7_Scenario ==
    [][epoch' = 0 => (C7_First' /\ C7_Second' /\ C7_Third /\ C7_AfterDequeue')]_vars

\* C8: a job stored as "processing" in the snapshot that the restart loads is
\* "queued" after the restart and its position is its rank among the
\* recovered Queued jobs.
C8_RecoveredRank ==
    [][epoch' = epoch + 1 =>
          \A j \in DOMAIN queue_file' :
              queue_file'[j].status = "processing" =>
                  /\ active_items'[j].status = "queued"
                  /\ active_items'[j].position = Rank(active_items', j)]_vars

\* C9: after the restart the pending queue holds the recovered Queued jobs in
\* submission order.
C9_RecoveredRequeued ==
    [][epoch' = epoch + 1 =>
          queue' = InSubmissionOrder(QueuedJobs(active_items'))]_vars

\* C10: when an enqueue, a dequeue, a completion or failure, or a purge has
\* finished, the persisted snapshot holds exactly the tracked jobs with their
\* current statuses.
MutationFinished ==
    \/ \E j \in Jobs : ppc[j] # "ok" /\ ppc'[j] = "ok"
    \/ \E j \in (DOMAIN active_items) \cap (DOMAIN active_items') :
          /\ active_items[j].status # "processing"
          /\ active_items'[j].status = "processing"
    \/ FinallyEnds
    \/ (DOMAIN active_items') \subseteq (DOMAIN active_items)
       /\ DOMAIN active_items' # DOMAIN active_items
C10_EveryMutationPersists ==
    [][(epoch' = epoch /\ MutationFinished) => SnapshotCurrent']_vars

Terminal(items, j) == items[j].status \in {"completed", "failed"}

\* C11: every tracked terminal job that the consumer has let go of (finished
\* in this run or loaded from the snapshot) has a pending purge (a sleeping
\* _cleanup_item task), so that it is purged after the retention window; and
\* a job that is purged is terminal, never "queued" or "processing".
C11_TerminalRetainedThenPurged ==
    [][/\ \A j \in DOMAIN active_items' :
             (Terminal(active_items', j) /\ current_item' # j) => j \in cleanup'
       /\ epoch' = epoch =>
             \A j \in (DOMAIN active_items) \ (DOMAIN active_items') :
                 Terminal(active_items, j)]_vars

Called(j, method) == method \in Range(notifier_calls[j])

\* C12: a job whose pipeline call failed (handle_request raised, or returned
\* the answer built from the pipeline's failure) has a non-empty error, is
\* "failed" and has had notify_error invoked; send_result is invoked only for
\* jobs whose pipeline call succeeded.
C12_PipelineFailureMarksFailed ==
    \A j \in DOMAIN active_items :
        LET it == active_items[j] IN
        /\ (it.error # "None" \/ it.result = "error_response") =>
               /\ it.status = "failed"
               /\ it.error # "None"
               /\ Called(j, "notify_error")
        /\ Called(j, "send_result") => it.result = "response"

\* The consumer waits in the put-back of _update_queue_positions on a full
\* queue while nothing is left that could take a job out of the queue: new
\* add_to_queue calls are rejected, so only shutdown() or a restart end this.
ConsumerStuck ==
    /\ processor_task = "live"
    /\ cpc = "update"
    /\ upd[0].st = "putblk"
    /\ Len(queue) >= max_queue_size
    /\ ready = <<>>
    /\ \A j \in Jobs : upd[j].st = "off"

\* C13: with no shutdown() in this run, once a job has failed the started
\* consumer is still alive and still able to take the jobs enqueued afterwards:
\* it has not terminated and it is not blocked for ever.
C13_ConsumerSurvivesFailure ==
    (nshut = 0 /\ processor_task # "none"
     /\ \E j \in DOMAIN active_items : active_items[j].status = "failed")
        => (processor_task = "live" /\ ~ConsumerStuck)

\* C14: when a shutdown() call returns, no tracked job is left "processing":
\* a job in flight at the call has been brought to "completed" or "failed".
C14_ShutdownNotMidProcessing ==
    [][(epoch' = epoch /\ shut # "idle" /\ shut' = "idle") =>
          \A j \in DOMAIN active_items' :
              active_items'[j].status # "processing"]_vars

\* the step in which the consumer dequeues job j and marks it "processing"
Dequeued(j) ==
    /\ epoch' = epoch
    /\ j \in (DOMAIN active_items) \cap (DOMAIN active_items')
    /\ active_items[j].status # "processing"
    /\ active_items'[j].status = "processing"

\* C15: at its dequeue a job gets the "processing started" notification
\* exactly when it had to wait behind another job: a job with position > 0
\* gets it, a job with position 0 does not, and neither does a job that is
\* the only one ever submitted (no job was ever ahead of it).
C15_StartedIffWaited ==
    [][\A j \in Jobs :
          Dequeued(j) =>
              LET started == "notify_processing_started" \in Range(notifier_calls'[j])
              IN /\ active_items[j].position > 0 => started
                 /\ active_items[j].position = 0 => ~started
                 /\ (epoch = 0 /\ nextId = 2) => ~started]_vars

\* C16: the notifier calls of a job are: at most one notify_processing_started,
\* first, made only once the job is "processing"; then exactly one of
\* send_result / notify_error, made when the job becomes terminal (send_result
\* for "completed", notify_error for "failed"); and nothing after it.
CallLogs ==
    {<<>>, <<"notify_processing_started">>, <<"send_result">>, <<"notify_error">>,
     <<"notify_processing_started", "send_result">>,
     <<"notify_processing_started", "notify_error">>}
C16_NotifierCallsFollowStatus ==
    \A j \in Jobs :
        LET log == notifier_calls[j] IN
        /\ log \in CallLogs
        /\ j \in DOMAIN active_items =>
              LET status == active_items[j].status IN
              /\ status = "completed" => (log # <<>> /\ log[Len(log)] = "send_result")
              /\ status = "failed" => (log # <<>> /\ log[Len(log)] = "notify_error")
              /\ (status = "processing") =>
                    log \in {<<>>, <<"notify_processing_started">>}
              /\ (status = "queued" /\ ppc[j] # "lost") => log = <<>>

\* One job went through "started" and "result", another got the error call.
C16_Witness ==
    \E i, j \in Jobs :
        /\ notifier_calls[i] = <<"notify_processing_started", "send_result">>
        /\ notifier_calls[j] # <<>>
        /\ notifier_calls[j][Len(notifier_calls[j])] = "notify_error"
        /\ cpc = "get"

----------------------------------------------------------------------------
\* Properties of process_query (specification PipelineSpec)

IsGenerate(e) == e.phase = "generate"
\* The generate_response attempts of the running (or last) call, in order.
GenerateLog == SelectSeq(pipeline.log, IsGenerate)

\* C17: in every call the providers are tried for generation in list order
\* from the first one (the k-th attempt is on provider k, whatever earlier
\* calls did); an attempt is made only after all earlier ones failed, so no
\* provider is invoked after the first well-formed answer; that answer ends
\* the call and is what the call returns.
C17_FirstWellFormedInOrder ==
    LET gen == GenerateLog IN
    /\ \A k \in DOMAIN gen :
          /\ gen[k].provider = k
          /\ k < Len(gen) => gen[k].outcome # "ok"
    /\ pipeline.result.kind = "response" =>
          /\ gen # <<>>
          /\ gen[Len(gen)].outcome = "ok"
          /\ pipeline.result.provider = gen[Len(gen)].provider
    /\ (gen # <<>> /\ gen[Len(gen)].outcome = "ok") =>
          (pipeline.pc = "done" /\ pipeline.result.kind = "response")
    /\ pipeline.current_provider_index = 0

\* The second call on the object has returned the answer of provider 2 after
\* provider 1 failed: it started again at provider 1 and went on in list order.
C17_Witness ==
    /\ pipeline.calls = 2
    /\ pipeline.pc = "done"
    /\ Len(pipeline.llm_providers) = NumProviders
    /\ pipeline.result = [kind |-> "response", provider |-> 2]
    /\ Len(GenerateLog) = 2
    /\ GenerateLog[1].provider = 1
    /\ GenerateLog[1].outcome # "ok"

\* The optimize_search_query invocations made on provider p in the running call.
Optimizations(P, p) ==
    Cardinality({k \in DOMAIN P.log : P.log[k].phase = "optimize" /\ P.log[k].provider = p})

\* Provider 1 ('groq') always answers with something unparseable, provider 2
\* ('groq_small') always answers well.
MalformedThenOk ==
    pipeline.llm_providers = <<(<<"malformed">>), (<<"ok">>)>>

\* C18: a provider whose answer is malformed is not asked to generate again
\* in the call: the next attempt, if any, is on the next provider, and every
\* provider has at most one generation attempt per call (and at most one
\* invocation by optimize_search_query before it).  With the constructor's two
\* providers, the first malformed and the second well-formed, a call that
\* reaches generation and is not cancelled returns the answer of the second
\* provider after exactly one generation attempt on the first.
C18_MalformedNotRetried ==
    LET gen == GenerateLog IN
    /\ \A k \in DOMAIN gen :
          (gen[k].outcome = "malformed" /\ k < Len(gen)) =>
              gen[k + 1].provider = gen[k].provider + 1
    /\ \A p \in DOMAIN pipeline.llm_providers :
          /\ Attempts(pipeline, p) <= 1
          /\ Optimizations(pipeline, p) <= 1
    /\ (/\ MalformedThenOk
        /\ pipeline.pc = "done"
        /\ pipeline.result # CancelledResult
        /\ gen # <<>>) =>
          /\ pipeline.result = [kind |-> "response", provider |-> 2]
          /\ Attempts(pipeline, 1) = 1

\* The call over a malformed provider and a good one is over and returned the
\* answer of provider 2 after one generation attempt on each provider.
C18_Witness ==
    /\ MalformedThenOk
    /\ pipeline.pc = "done"
    /\ pipeline.result = [kind |-> "response", provider |-> 2]
    /\ \A p \in 1..NumProviders : Attempts(pipeline, p) = 1
    /\ GenerateLog[1].outcome = "malformed"
    /\ GenerateLog[2].outcome = "ok"

\* C19: a generation attempt that ends in a rate-limit error is followed by
\* another attempt on the same provider, not by an attempt on the next one;
\* and the first call on a pipeline whose first provider is rate-limited
\* twice and then answers well returns that provider's answer after exactly
\* two delays.
C19_RateLimitedRetriedSameProvider ==
    LET gen == GenerateLog IN
    /\ \A k \in DOMAIN gen :
          (gen[k].outcome = "rate_limited" /\ k < Len(gen)) =>
              gen[k + 1].provider = gen[k].provider
    /\ (/\ pipeline.llm_providers # <<>>
        /\ pipeline.llm_providers[1] = <<"rate_limited", "rate_limited", "ok">>
        /\ pipeline.calls = 1
        /\ pipeline.pc = "done"
        /\ gen # <<>>) =>
          (/\ pipeline.result = [kind |-> "response", provider |-> 1]
           /\ Len(pipeline.delays) = 2)

\* C20: a fatal error raised while a provider is used for generation is the
\* last generation attempt of the call: no provider is invoked after it.
C20_FatalAbortsCall ==
    LET gen == GenerateLog IN
    \A k \in DOMAIN gen : gen[k].outcome = "fatal" => k = Len(gen)

\* Every provider of a non-empty list has had its generation attempt in the
\* running call, and none of them gave a well-formed answer.
AllProvidersFailed ==
    /\ pipeline.llm_providers # <<>>
    /\ Len(GenerateLog) = Len(pipeline.llm_providers)
    /\ \A k \in DOMAIN GenerateLog : GenerateLog[k].outcome # "ok"

\* process_query has executed one of its return statements: the Response of
\* line 240 or the dict of lines 256-261.
ReturnedNormally == pipeline.pc = "done" /\ pipeline.result.kind \in {"response", "error"}

\* C21: a call in which every provider failed does not end with a returned
\* value: it ends with an error raised to the caller.
C21_AllFailedRaises == (AllProvidersFailed /\ pipeline.pc = "done") => ~ReturnedNormally

----------------------------------------------------------------------------
\* Properties of SearchAPIManager.search and restricted_web_search
\* (specification SearchSpec)

\* The place of an API in the order in which search goes through the APIs.
ApiIndex(a) == CHOOSE i \in DOMAIN api_order : api_order[i] = a

\* C22: within one search call, an API that was attempted is not attempted
\* again once an API later in the order has been attempted.
C22_NoReturnToEarlierProvider ==
    \A i, j, k \in DOMAIN search.log :
        (i < j /\ j < k /\ ApiIndex(search.log[j]) > ApiIndex(search.log[i])) =>
            search.log[k] # search.log[i]

\* A running search call comes to its end, with a result or an error.
SearchTerminates == (search.pc \in {"for", "sleep"}) ~> (search.pc \in {"returned", "raised"})
\* A running restricted_web_search call comes to its end.
ToolTerminates == (tool.pc # "idle") ~> (tool.pc = "returned")

\* C23: whatever the backends answer, a search call and a
\* restricted_web_search call that have started come to an end.
C23_RetriesTerminate == SearchTerminates /\ ToolTerminates

----------------------------------------------------------------------------
\* Properties of CommonHelpers.check_rate_limit (specification LimiterSpec)

\* C24: any two consecutive returns of check_rate_limit for the same
\* operation are at least rate_limit_seconds apart.
C24_ConsecutiveReturnsApart ==
    \A o \in Operations :
        limiter.prev_return[o] # Never =>
            limiter.last_return[o] - limiter.prev_return[o] >= rate_limit_seconds

\* What a step of the call for operation o can make of that operation.
LimiterView(L, o) ==
    [pc |-> L.pc[o], stamp |-> L.rate_limiter[o], slept |-> L.slept[o],
     wake |-> L.wake[o], returned |-> L.last_return[o]]
\* The next step of check_rate_limit for o: its entry, or its part after the sleep.
LimiterStep(L, o) == IF L.pc[o] = "idle" THEN LimiterEnter(L, o) ELSE LimiterResume(L, o)

\* C25: a step of check_rate_limit for one operation leaves the stamp of every
\* other operation as it is, and does to its own operation (sleep or not,
\* stamp, return) the same whatever the stamp of the other operation is.
C25_OperationsIndependent ==
    \A o \in Operations : \A b \in Operations \ {o} :
        /\ LimiterStep(limiter, o).rate_limiter[b] = limiter.rate_limiter[b]
        /\ \A v \in 0..MaxTime :
              LimiterView(LimiterStep([limiter EXCEPT !.rate_limiter[b] = v], o), o)
                  = LimiterView(LimiterStep(limiter, o), o)

\* One operation's call sleeps while the other operation, stamped at another
\* time, has had a call that returned.
C25_Witness ==
    \E o \in Operations : \E b \in Operations \ {o} :
        /\ limiter.pc[o] = "sleeping"
        /\ limiter.last_return[b] # Never
        /\ limiter.rate_limiter[b] # limiter.rate_limiter[o]

\* C26: when a call has returned, the stamp of its operation is the time of
\* that return, and a call that found less than rate_limit_seconds elapsed
\* since the stamp asked for a sleep of exactly the remaining time.
C26_RemainingDeltaAndStampNow ==
    \A o \in Operations :
        (limiter.pc[o] = "idle" /\ limiter.last_return[o] # Never) =>
            /\ limiter.rate_limiter[o] = limiter.last_return[o]
            /\ limiter.elapsed[o] < rate_limit_seconds =>
                  limiter.slept[o] = rate_limit_seconds - limiter.elapsed[o]

----------------------------------------------------------------------------
\* Further properties of the queue manager (specification Spec)

\* Job j awaits processing: it is in the pending queue, or a running
\* _update_queue_positions has taken it out and will put it back.
Awaiting(j) ==
    \/ j \in Range(queue)
    \/ \E u \in Owners : j \in Range(upd[u].temp) \/ upd[u].res = j

\* The jobs of a user that are "queued" and await processing.
WaitingJobsOf(user) ==
    {j \in DOMAIN active_items : /\ active_items[j].user_id = user
                                 /\ active_items[j].status = "queued"
                                 /\ Awaiting(j)}

\* C27: get_user_queue_position(user) is the least position of the user's
\* Queued jobs that await processing, and None exactly when there is none.
C27_PositionOfWaitingJobs ==
    \A user \in Users :
        get_user_queue_position(active_items, user) =
            IF WaitingJobsOf(user) = {} THEN NoPosition
            ELSE Min({active_items[j].position : j \in WaitingJobsOf(user)})

----------------------------------------------------------------------------
\* Properties of the queue manager whose snapshot cannot be written
\* (specification FailingDiskSpec)

\* The state without the snapshot file and the condition of the disk.
InMemory(S) == [S EXCEPT !.queue_file = EmptyDict, !.disk = "ok", !.trail = <<>>]

\* C28: whatever step of add_to_queue, of the consumer or of shutdown runs
\* next, it leaves the same in-memory state (pending queue, tracked jobs,
\* statuses, positions, the progress of every call and of the consumer) with
\* the failing write as it would with a successful write.
C28_WriteFailureNonFatal ==
    ready # <<>> =>
        \A in \in StepInputs :
            InMemory(RunHead(State, in)) =
                InMemory(RunHead([State EXCEPT !.disk = "ok"], in))

\* With the disk failing since the start, an add_to_queue call has returned,
\* a job is completed, nothing was written, and the consumer waits for the
\* next job.
C28_Witness ==
    /\ disk = "failing"
    /\ epoch = 0
    /\ queue_file = EmptyDict
    /\ \E j \in DOMAIN active_items : ppc[j] = "ok"
    /\ \E i \in DOMAIN active_items : active_items[i].status = "completed"
    /\ processor_task = "live"
    /\ cpc = "get"

\* The state without the condition of Discord.
DiscordHidden(S) == [S EXCEPT !.discord = "ok"]

\* The consumer is about to be resumed from an awaited notifier call.
NotifierCallEnds ==
    /\ ready # <<>>
    /\ Head(ready) = CB("task", 0)
    /\ cpc \in {"notify", "send"}
    /\ ccancel = "no"

\* The consumer is about to run and no cancellation is on its way.
ConsumerRunsNext ==
    /\ ready # <<>>
    /\ Head(ready) = CB("task", 0)
    /\ ccancel = "no"

\* The consumer taken through the notifier calls it is suspended in, with
\* nothing else running in between.
RECURSIVE Through(_, _)
Through(S, io) ==
    IF S.cpc \in {"notify", "send"} /\ S.ccancel = "no"
    THEN Through(ConsumerStep(S, io), io)
    ELSE S

\* The state as it is, and as it is with working Discord calls: there the
\* notifier calls that fail are those that raise on int() before any await.
DiscordConditions == {State, DiscordHidden(State)}

\* C29: a notifier call that failed, on int(item.channel_id) or
\* int(item.user_id) or in a Discord call, at once or after a suspension,
\* hands nothing to the consumer.  (1) Taken through its notifier calls, the
\* consumer leaves the state it leaves with working Discord calls.  (2) The
\* step that resumes the consumer from a notifier call leaves the job's
\* status, result and error as they were (a job whose send_result failed
\* stays "completed"), invokes no further notifier method for it, goes on to
\* handle_request after notify_processing_started and through the cleanup of
\* the finally block after send_result / notify_error.  (3) A step in which a
\* call is made and fails at once, with failing or with working Discord calls,
\* leaves the job with the status the consumer gave it and goes on in the same
\* way.
C29_NotifierFailureAbsorbed ==
    /\ ConsumerRunsNext =>
          \A in \in StepInputs :
              DiscordHidden(Through(RunHead(State, in), in.io)) =
                  Through(RunHead(DiscordHidden(State), in), in.io)
    /\ NotifierCallEnds =>
          \A in \in StepInputs : \A D \in DiscordConditions :
              LET R == RunHead(D, in)
                  item == current_item
              IN /\ R.active_items[item] = active_items[item]
                 /\ R.notifier_calls[item] = notifier_calls[item]
                 /\ cpc = "notify" => R.cpc = "handle" /\ R.current_item = item
                 /\ cpc = "send" => /\ item \in R.cleanup
                                    /\ R.current_item # item
                                    /\ R.cpc \in {"update", "get", "notify", "handle"}
    /\ ConsumerRunsNext =>
          \A in \in StepInputs : \A D \in DiscordConditions :
          \A j \in DOMAIN active_items :
              LET R == RunHead(D, in)
                  log == R.notifier_calls[j]
              IN (/\ log # notifier_calls[j]
                  /\ ~(R.current_item = j /\ R.cpc \in {"notify", "send"})) =>
                    /\ log[Len(log)] = "send_result" =>
                          /\ R.active_items[j].status = "completed"
                          /\ R.active_items[j].error = "None"
                          /\ j \in R.cleanup /\ R.current_item # j
                    /\ log[Len(log)] = "notify_error" =>
                          /\ R.active_items[j].status = "failed"
                          /\ j \in R.cleanup /\ R.current_item # j
                    /\ log[Len(log)] = "notify_processing_started" =>
                          /\ R.active_items[j].status = "processing"
                          /\ R.cpc = "handle" /\ R.current_item = j

\* With every Discord call failing: the delivery of a completed job's result
\* has failed in the Discord call, the job is still "completed" and through its
\* cleanup, and the consumer has taken the next job and, after the start
\* notification failed on int(item.user_id), is processing it.
C29_Witness ==
    /\ discord = "failing"
    /\ epoch = 0
    /\ cpc = "handle"
    /\ \E i, j \in DOMAIN active_items :
          /\ i # j
          /\ active_items[i].status = "completed"
          /\ notifier_calls[i] # <<>>
          /\ notifier_calls[i][Len(notifier_calls[i])] = "send_result"
          /\ FirstAwait(active_items[i], "send_result") = "channel.send"
          /\ i \in cleanup
          /\ current_item = j
          /\ notifier_calls[j] = <<"notify_processing_started">>
          /\ IsNumeric(active_items[j].channel_id)
          /\ ~IsNumeric(active_items[j].user_id)
          /\ FirstAwait(active_items[j], "notify_processing_started") = "none"

----------------------------------------------------------------------------
\* Properties of add_to_queue and the two lookups (specification Spec)

\* add_to_queue for job j returns its item in this step.
AddReturns(j) == ppc[j] # "ok" /\ ppc'[j] = "ok"

\* C30: when add_to_queue returns, the item has an id and get_item_status of
\* that id returns the item (the call does not hand back an item that is no
\* longer tracked); from then on the item stays tracked until the
\* process ends or the _cleanup_item task, which the consumer creates when it
\* is through with the job, purges it, so never while it is "queued"; and as
\* long as the tracked item is "queued", get_user_queue_position of its user
\* returns a position.
C30_AddedIsTrackedAndPositioned ==
    /\ [][\A j \in Jobs :
            AddReturns(j) =>
                /\ j # NoJob
                /\ get_item_status(active_items', j) # NoItem
                /\ get_item_status(active_items', j).user_id = UserOf(j)]_vars
    /\ [][\A j \in Jobs :
            (/\ ppc[j] = "ok"
             /\ get_item_status(active_items, j) # NoItem
             /\ get_item_status(active_items', j) = NoItem)
                => \/ epoch' # epoch
                   \/ j \in cleanup /\ active_items[j].status # "queued"]_vars
    /\ [](\A j \in Jobs :
            (/\ ppc[j] = "ok"
             /\ get_item_status(active_items, j) # NoItem
             /\ get_item_status(active_items, j).status = "queued")
                => get_user_queue_position(active_items, UserOf(j)) # NoPosition)

----------------------------------------------------------------------------
\* Properties of handle_request (specification HandlerSpec)

\* The outcomes of the awaited pipeline call that C31 names: a model result, a
\* plain mapping, a value of an unexpected type, an exception.
NamedOutcomes == {"model", "dict", "other", "raise"}

\* C31: for every outcome of the pipeline that the claim names, a
\* handle_request call does not end with an exception: it returns a response
\* with a 'message' that has a 'content' field.  Nothing but the
\* asyncio.CancelledError of a cancelled task, which is none of these outcomes
\* (QueueManager.shutdown() throws it in, see C14), ever leaves the call.
C31_HandleRequestAnswersEveryOutcome ==
    /\ (handler.pc \in {"returned", "raised"} /\ handler.result.kind \in NamedOutcomes) =>
          /\ handler.pc = "returned"
          /\ "message" \in DOMAIN handler.response
          /\ "content" \in DOMAIN handler.response.message
          /\ handler.response.message.content # <<>>
    /\ handler.pc = "raised" =>
          /\ handler.exc = "CancelledError"
          /\ handler.result.kind = "cancel"

\* The pipeline handed over a mapping without 'topic' whose source list holds
\* a value that is no mapping: the call returned the error response of the
\* KeyError.
C31_Witness ==
    /\ handler.pc = "returned"
    /\ handler.result.kind = "dict"
    /\ "topic" \notin handler.result.keys
    /\ "str" \in Range(handler.result.sources_used)
    /\ handler.response.status_code = 500
    /\ handler.response.status = "error"
    /\ handler.response.message.content = <<"Error processing request:", "KeyError">>

----------------------------------------------------------------------------
\* Properties of the interleavings of producers, consumer and
\* _update_queue_positions (specification Spec)

\* The consumer dequeues job j in this step (lines 131-136).
Dequeues(j) ==
    /\ j \in DOMAIN active_items /\ j \in DOMAIN active_items'
    /\ active_items[j].status = "queued"
    /\ active_items'[j].status = "processing"

\* add_to_queue has inserted job j into the pending queue in this run.
Inserted(j) == ppc[j] \in {"updating", "ok"}

\* C32: when the consumer dequeues a job, no job that add_to_queue inserted
\* before it in this run is still "queued" (the calls insert in the order of
\* their ids).
C32_DequeuedInInsertionOrder ==
    [][\A j \in Jobs :
          Dequeues(j) =>
              ~ \E i \in DOMAIN active_items :
                    /\ i < j
                    /\ Inserted(i)
                    /\ active_items[i].status = "queued"]_vars

\* A running _update_queue_positions holds jobs that it has taken out of the
\* pending queue and not put back.
JobsRemoved == \E u \in Owners : upd[u].temp # <<>> \/ upd[u].res # NoJob

\* C33: no add_to_queue call runs its capacity check and insert while a
\* _update_queue_positions has jobs out of the pending queue; the jobs
\* inserted in this run that are "queued" are never more than max_queue_size;
\* and no _update_queue_positions is blocked in putting a job back.
C33_RecomputeAtomic ==
    /\ [][\A j \in Jobs : AddCallRuns(j) => ~JobsRemoved]_vars
    /\ [](Cardinality({i \in DOMAIN active_items :
                          Inserted(i) /\ active_items[i].status = "queued"})
             <= max_queue_size)
    /\ [](\A u \in Owners : upd[u].st # "putblk")

----------------------------------------------------------------------------
\* _update_queue_positions run on its own (specification Spec)

\* A started _update_queue_positions of owner u runs to its end with nothing
\* else running: its wait_for tasks, their done-callbacks and its own
\* resumptions are the only callbacks of the event loop.
RECURSIVE RunUpdate(_, _)
RunUpdate(S, u) ==
    IF S.upd[u].st = "off" \/ S.ready = <<>> THEN S
    ELSE LET cb == Head(S.ready)
             P == [S EXCEPT !.ready = Tail(@)]
         IN CASE cb.k = "inner" -> RunUpdate(InnerStep(P, u), u)
              [] cb.k = "rel" -> RunUpdate(ReleaseStep(P, u), u)
              [] cb.k = "task" -> RunUpdate(UpdResume(P, u), u)

\* Nothing is scheduled, no _update_queue_positions is running and nobody
\* waits on the queue: a call of _update_queue_positions would run on its own.
Quiescent ==
    /\ ready = <<>>
    /\ getters = <<>> /\ putters = <<>>
    /\ \A u \in Owners : upd[u].st = "off"

Once == RunUpdate(update_queue_positions(State, 1), 1)
Twice == RunUpdate(update_queue_positions(Once, 1), 1)

\* C34: _update_queue_positions run twice in a row, with nothing in between,
\* leaves what one run leaves: the same pending queue in the same order and
\* the same position for every tracked job (and the same state altogether).
C34_UpdateIdempotent ==
    Quiescent =>
        /\ Once.upd[1].st = "off" /\ Twice.upd[1].st = "off"
        /\ Twice.queue = Once.queue
        /\ \A j \in DOMAIN active_items :
              Twice.active_items[j].position = Once.active_items[j].position
        /\ Twice = Once

\* Two jobs are pending with positions that a run changes (the job before
\* them has been dequeued): the first run renumbers them, the second changes
\* nothing.
C34_Witness ==
    /\ Quiescent
    /\ Len(queue) >= 2
    /\ Once.queue = queue
    /\ Once.active_items # active_items
    /\ Twice = Once

----------------------------------------------------------------------------
\* Properties of the retry loop of SearchAPIManager.search (specification
\* SearchSpec); search.pass_start is the number of API invocations of the call
\* at the start of the current iteration of the while loop.

\* The while loop ends an iteration and starts the next one at once: no sleep,
\* no return, no raise.
IteratesAtOnce ==
    /\ search.pc = "for" /\ search.api = 3
    /\ search'.pc = "for" /\ search'.api = 1

\* C35: an iteration of the while loop that is followed by the next one
\* without a sleep has invoked a search API or increased retry_count.
C35_NoBusyWait ==
    [][IteratesAtOnce =>
          \/ Len(search'.log) > search.pass_start
          \/ search'.retry_count > search.retry_count]_vars

----------------------------------------------------------------------------
\* Properties of handle_api_error (specification ApiErrorSpec)

\* C36: for an error whose text has a network word (connection, timeout,
\* network): with retry_count < max_retries the call sleeps 2^retry_count
\* seconds and returns True; with retry_count >= max_retries it returns False
\* without sleeping.
C36_NetworkErrorBackoff ==
    (api_error.pc # "idle" /\ api_error.error.net) =>
        IF api_error.retry_count < api_error.max_retries
        THEN /\ api_error.delay = Pow2(api_error.retry_count)
             /\ api_error.pc = "returned" => api_error.result = "True"
        ELSE /\ api_error.pc = "returned"
             /\ api_error.result = "False"
             /\ api_error.delay = 0

----------------------------------------------------------------------------
\* Properties of start_processor (specification Spec)

\* C37: whenever and however often start_processor is called, at most one
\* consumer task is alive: none before the first call, and exactly one while
\* processor_task refers to a task that is not done.
C37_AtMostOneConsumer ==
    /\ consumers \in {0, 1}
    /\ consumers = 1 <=> processor_task = "live"

\* shutdown() has cancelled the first consumer while it was processing a job
\* and has returned; start_processor has been called again and the one
\* consumer alive is the new one, which waits for a job.
C37_Witness ==
    /\ epoch = 0
    /\ nshut = 1 /\ shut = "idle"
    /\ \E j \in cleanup : j \in DOMAIN active_items
                          /\ active_items[j].status = "processing"
    /\ processor_task = "live"
    /\ cpc = "get"
    /\ consumers = 1

----------------------------------------------------------------------------
\* Properties of the bookkeeping of the queue manager (specification Spec)

\* No _update_queue_positions is running.
NoUpdateRunning == \A u \in Owners : upd[u].st = "off"

\* The tracked jobs with status "processing".
ProcessingJobs(items) == {j \in DOMAIN items : items[j].status = "processing"}

\* get_queue_status: queue_size, is_processing, current_processing, active_items
get_queue_status(S) ==
    [queue_size |-> Len(S.queue),
     is_processing |-> S.is_processing,
     current_processing |-> S.current_item,
     max_capacity |-> max_queue_size,
     active_items |-> Cardinality(DOMAIN S.active_items)]

\* C38: outside a running _update_queue_positions, the pending queue holds
\* exactly the tracked jobs with status "queued" (so queue_size is their
\* number), is_processing is true exactly when current_processing names a
\* job, and that job is the only tracked job with status "processing".
C38_BookkeepingConsistent ==
    NoUpdateRunning =>
        LET status == get_queue_status(State) IN
        /\ Range(queue) = QueuedJobs(active_items)
        /\ status.queue_size = Cardinality(QueuedJobs(active_items))
        /\ status.is_processing <=> status.current_processing # NoJob
        /\ status.current_processing # NoJob =>
              ProcessingJobs(active_items) = {status.current_processing}
====
